---- MODULE Spec2Model ----
(***************************************************************************)
(* Search orchestration of the knowledge retrieval backend:                *)
(* SearchService.search (strategy selection, retrieval, legacy hybrid      *)
(* fusion, reranking, clustering, truncation, search log) together with    *)
(* the collaborators it calls (VectorService, FulltextService,             *)
(* RerankingService, AnalyticsService).                                    *)
(*                                                                         *)
(* Conventions.                                                            *)
(*  - Result scores (SearchResult.score, min_score) are decimals written   *)
(*    in units of 0.001: 0.9 is 900.  Weights are written in units of 0.1. *)
(*  - Strategy scores (feature and history scores) are decimals written in *)
(*    units of 0.0001: 0.5 is 5000.  Final scores 0.7*f + 0.3*h are kept   *)
(*    as 7*f + 3*h, that is in units of 0.00001.                           *)
(*  - The arithmetic is exact decimal arithmetic; the rounding of IEEE     *)
(*    doubles is not modelled.                                             *)
(*  - A query is a sequence of characters.  A CJK character is written by  *)
(*    its code point ("U5B9A"), an ASCII character by itself.              *)
(***************************************************************************)
EXTENDS Integers, Sequences, FiniteSets, TLC

VARIABLES
    pc,               \* position of the request inside SearchService.search
    req,              \* arguments of the search call in progress
    strategy,         \* local variable strategy of search
    results,          \* local variable results of search
    semantic_results, \* local variable of _legacy_hybrid_search
    strategy_used,    \* SearchService.strategy_used
    clusters,         \* SearchService.clusters
    conn,             \* AnalyticsService.conn is set (database reachable)
    search_logs,      \* AnalyticsService.search_logs (in-memory fallback store)
    db_logs,          \* rows of table search_logs written through conn
    model,            \* RerankingService.model is loaded
    env,              \* what the retrievers hold for the request (raw hits)
    trace,            \* stages and collaborator calls of the request, in order
    outcome,          \* how the last search call ended
    fn_args,          \* arguments of the pure function under check
    fn_ret,           \* its result
    tasks             \* the coroutines in flight when several run at once

vars == << pc, req, strategy, results, semantic_results, strategy_used,
           clusters, conn, search_logs, db_logs, model, env, trace, outcome,
           fn_args, fn_ret, tasks >>

(***************************************************************************)
(* Bounds of the model.                                                    *)
(***************************************************************************)
MaxHits == 2
MaxAtoms == 2
MaxFuseLen == 2
MaxLogs == 2
MaxPairs == 2
MaxTexts == 2
MaxClusterLen == 3

(***************************************************************************)
(* Generic helpers.                                                        *)
(***************************************************************************)
Min(a, b) == IF a <= b THEN a ELSE b
Max(a, b) == IF a >= b THEN a ELSE b

Range(s) == { s[i] : i \in 1..Len(s) }

\* list[:n] of Python, for any integer n
Prefix(s, n) ==
    IF n >= 0 THEN SubSeq(s, 1, Min(n, Len(s)))
              ELSE SubSeq(s, 1, Max(Len(s) + n, 0))

\* list[-n:] of Python, for n > 0
Suffix(s, n) == SubSeq(s, Max(Len(s) - n, 0) + 1, Len(s))

RECURSIVE Concat(_)
Concat(ss) == IF ss = << >> THEN << >> ELSE Head(ss) \o Concat(Tail(ss))

\* sequences over S of length 0..n
SeqsUpTo(S, n) == UNION { [1..k -> S] : k \in 0..n }

(***************************************************************************)
(* Query feature scorer: SearchService._analyze_query_features.            *)
(***************************************************************************)
special_chars == { ":", "/", "+", "-", "&", "|", "!", "(", ")", "*" }

definition_terms ==
    { <<"U5B9A", "U4E49">>,
      <<"U662F", "U4EC0", "U4E48">>,
      <<"U6982", "U5FF5">>,
      <<"U89E3", "U91CA">>,
      <<"U542B", "U4E49">> }

operation_terms ==
    { <<"U5982", "U4F55">>,
      <<"U600E", "U4E48">>,
      <<"U65B9", "U6CD5">>,
      <<"U6B65", "U9AA4">>,
      <<"U6D41", "U7A0B">>,
      <<"U6559", "U7A0B">> }

comparison_terms ==
    { <<"U6BD4", "U8F83">>,
      <<"U533A", "U522B">>,
      <<"U5DEE", "U5F02">>,
      <<"U4F18", "U7F3A", "U70B9">>,
      <<"v", "s">>,
      <<"v", "e", "r", "s", "u", "s">> }

open_terms ==
    { <<"U4E3A", "U4EC0", "U4E48">>,
      <<"U539F", "U56E0">>,
      <<"U5F71", "U54CD">>,
      <<"U4F5C", "U7528">>,
      <<"U610F", "U4E49">> }

\* term in query (substring test of Python)
Contains(query, term) ==
    \E i \in 1..(Len(query) - Len(term) + 1) :
        SubSeq(query, i, i + Len(term) - 1) = term

ContainsAny(query, terms) == \E t \in terms : Contains(query, t)

HasChar(query, chars) == \E i \in 1..Len(query) : query[i] \in chars

\* str.split(): the maximal runs of non-blank characters, in order
RECURSIVE SplitFrom(_, _, _)
SplitFrom(query, i, word) ==
    IF i > Len(query)
    THEN IF word = << >> THEN << >> ELSE << word >>
    ELSE IF query[i] = " "
         THEN (IF word = << >> THEN << >> ELSE << word >>)
              \o SplitFrom(query, i + 1, << >>)
         ELSE SplitFrom(query, i + 1, Append(word, query[i]))

Split(query) == SplitFrom(query, 1, << >>)

\* the feature scorer without the base score of the hybrid strategy
HybridBaseNone == 5000 - 5000

\* "hybrid": 0.5
HybridBase == 5000

_analyze_query_features(query) ==
    LET query_length == Len(query)
        quoted       == HasChar(query, { "\"", "'" })
        special      == HasChar(query, special_chars)
        definition   == ContainsAny(query, definition_terms)
        operation    == ContainsAny(query, operation_terms)
        comparison   == ContainsAny(query, comparison_terms)
        open         == ContainsAny(query, open_terms)
        words        == Split(query)
    IN  [ semantic |->
              (IF query_length > 10 THEN 3000 ELSE 0)
            + (IF comparison THEN 3000 ELSE 0)
            + (IF open THEN 4000 ELSE 0)
            + (IF Len(words) > 7 THEN 2000 ELSE 0),
          fulltext |->
              (IF query_length < 5 THEN 4000 ELSE 0)
            + (IF quoted THEN 5000 ELSE 0)
            + (IF special THEN 3000 ELSE 0)
            + (IF definition THEN 4000 ELSE 0)
            + (IF operation THEN 3000 ELSE 0),
          hybrid |->
              HybridBase
            + (IF 5 <= query_length /\ query_length <= 10 THEN 2000 ELSE 0)
            + (IF operation THEN 1000 ELSE 0)
            + (IF comparison THEN 2000 ELSE 0) ]

RECURSIVE SeqSum(_)
SeqSum(s) == IF s = << >> THEN 0 ELSE Head(s) + SeqSum(Tail(s))

(***************************************************************************)
(* Historical performance scorer: SearchService._find_similar_queries and  *)
(* SearchService._analyze_historical_performance.                          *)
(* A log entry is [query, strategy, response_time, result_count,           *)
(* similarity]; similarity is << >> while the key is absent from the dict  *)
(* and <<n, d>> for the ratio n/d once _find_similar_queries has set it.   *)
(* response_time is in whole seconds.                                      *)
(***************************************************************************)
RecentLogWindow == 100
SimilarLimit == 5

Strategies == << "semantic", "fulltext", "hybrid" >>

Keywords(query) == Range(Split(query))

\* overlap = len(keywords & log_keywords) / len(keywords | log_keywords)
Overlap(query, log) ==
    << Cardinality(Keywords(query) \cap Keywords(log.query)),
       Cardinality(Keywords(query) \cup Keywords(log.query)) >>

\* log_keywords is not empty and overlap > 0.3
IsSimilar(query, log) ==
    /\ Keywords(log.query) # {}
    /\ 10 * Overlap(query, log)[1] > 3 * Overlap(query, log)[2]

\* x.get("similarity", 0) of a is greater than that of b
SimilarityGt(a, b) ==
    LET sa == IF a.similarity = << >> THEN << 0, 1 >> ELSE a.similarity
        sb == IF b.similarity = << >> THEN << 0, 1 >> ELSE b.similarity
    IN  sa[1] * sb[2] > sb[1] * sa[2]

\* the similar entries left in log order
SortBySimilarityNone(s) == s

\* similar_queries.sort(key=lambda x: x.get("similarity", 0), reverse=True):
\* a stable sort, entries of equal similarity keep their order
SortBySimilarity(s) ==
    LET n == Len(s)
        rank(i) ==
            1 + Cardinality({ j \in 1..n : SimilarityGt(s[j], s[i]) })
              + Cardinality({ j \in 1..(i - 1) :
                    ~SimilarityGt(s[j], s[i]) /\ ~SimilarityGt(s[i], s[j]) })
    IN  [ p \in 1..n |-> s[CHOOSE i \in 1..n : rank(i) = p] ]

\* The log collection after _find_similar_queries: the entries of the window
\* that pass the threshold carry the key "similarity" (they are the dicts of
\* the collection itself, not copies).
MarkSimilar(query, logs) ==
    LET first == Max(Len(logs) - RecentLogWindow, 0) + 1
    IN  [ i \in 1..Len(logs) |->
            IF i >= first /\ IsSimilar(query, logs[i])
            THEN [ logs[i] EXCEPT !.similarity = Overlap(query, logs[i]) ]
            ELSE logs[i] ]

\* An error inside the history scorer: none, one raised in
\* _find_similar_queries after n entries of the window have been handled, or
\* one raised in the loop of _analyze_historical_performance while it
\* handles the n-th strategy.
NoFault == [ at |-> "none", n |-> 0 ]

HistoryFaults(logs) ==
    { NoFault }
    \cup [ at : { "lookup" }, n : 0..Min(Len(logs), RecentLogWindow) ]
    \cup [ at : { "aggregation" }, n : 1..Len(Strategies) ]

\* The log collection when the loop of _find_similar_queries has handled the
\* first n entries of the window
MarkSimilarUpTo(query, logs, n) ==
    LET first == Max(Len(logs) - RecentLogWindow, 0) + 1
    IN  [ i \in 1..Len(logs) |->
            IF i >= first /\ i < first + n /\ IsSimilar(query, logs[i])
            THEN [ logs[i] EXCEPT !.similarity = Overlap(query, logs[i]) ]
            ELSE logs[i] ]

\* The log collection after the history scorer has run
LogsAfterLookup(query, logs, fault) ==
    IF fault.at = "lookup" THEN MarkSimilarUpTo(query, logs, fault.n)
                           ELSE MarkSimilar(query, logs)

\* has_logs: the service has the attribute search_logs (conn is None);
\* "except Exception: return []" when the lookup fails
_find_similar_queries(query, has_logs, logs, fault) ==
    LET recent_logs == IF has_logs /\ logs # << >>
                       THEN Suffix(MarkSimilar(query, logs), RecentLogWindow)
                       ELSE << >>
        IsHit(log)  == IsSimilar(query, log)
        similar_queries == SelectSeq(recent_logs, IsHit)
    IN  IF fault.at = "lookup"
        THEN << >>
        ELSE Prefix(SortBySimilarity(similar_queries), SimilarLimit)

StrategyPerformance(similar_queries, s) ==
    LET OfStrategy(log) == log.strategy = s
        strategy_logs == SelectSeq(similar_queries, OfStrategy)
        n      == Len(strategy_logs)
        sum_rt == SeqSum([ i \in 1..n |-> strategy_logs[i].response_time ])
        sum_rc == SeqSum([ i \in 1..n |-> strategy_logs[i].result_count ])
        \* 0.7 * (1 / (1 + avg_response_time)), rounded down to 0.0001
        time_part  == (7000 * n) \div (n + sum_rt)
        \* 0.3 * (0.3 if 1 <= avg_result_count <= 20 else 0)
        count_part == IF n <= sum_rc /\ sum_rc <= 20 * n THEN 900 ELSE 0
    IN  IF n = 0 THEN 0 ELSE time_part + count_part

\* scores = {"semantic": 0.0, "fulltext": 0.0, "hybrid": 0.0}
ZeroScores == [ semantic |-> 0, fulltext |-> 0, hybrid |-> 0 ]

\* strategy_performance when the loop has handled the first k strategies (a
\* strategy without an entry is written with 0, the value scores keeps for it)
PerformanceUpTo(similar_queries, k) ==
    [ semantic |-> IF k >= 1 THEN StrategyPerformance(similar_queries, "semantic")
                             ELSE 0,
      fulltext |-> IF k >= 2 THEN StrategyPerformance(similar_queries, "fulltext")
                             ELSE 0,
      hybrid   |-> IF k >= 3 THEN StrategyPerformance(similar_queries, "hybrid")
                             ELSE 0 ]

\* the scores already replaced by what the loop had computed when it failed
ScoresAtFaultPartial(scores, strategy_performance) == strategy_performance

\* "except Exception as e: logger.warning(...)" then "return scores": the
\* copy of strategy_performance into scores was not reached
ScoresAtFault(scores, strategy_performance) == scores

_analyze_historical_performance(query, has_logs, logs, fault) ==
    LET similar_queries == _find_similar_queries(query, has_logs, logs, fault)
        scores          == ZeroScores
    IN  IF similar_queries = << >>
        THEN scores
        ELSE IF fault.at = "aggregation"
             THEN ScoresAtFault(scores,
                                PerformanceUpTo(similar_queries, fault.n - 1))
             ELSE PerformanceUpTo(similar_queries, Len(Strategies))

(***************************************************************************)
(* SearchService._select_strategy_by_scores.                               *)
(***************************************************************************)
HybridMargin == 10000

FinalScore(feature_score, history_score, s) ==
    CASE s = "semantic" -> 7 * feature_score.semantic + 3 * history_score.semantic
      [] s = "fulltext" -> 7 * feature_score.fulltext + 3 * history_score.fulltext
      [] s = "hybrid"   -> 7 * feature_score.hybrid + 3 * history_score.hybrid

\* max(final_scores.items(), key=lambda x: x[1])[0]: the first maximum in
\* the order semantic, fulltext, hybrid of the dict
BestStrategy(feature_score, history_score) ==
    LET f(s) == FinalScore(feature_score, history_score, s)
        i == CHOOSE i \in 1..3 :
                /\ \A j \in 1..3 : f(Strategies[j]) <= f(Strategies[i])
                /\ \A j \in 1..(i - 1) : f(Strategies[j]) < f(Strategies[i])
    IN  Strategies[i]

\* the highest final score taken as it is, without the override to hybrid
SelectBestOnly(feature_score, history_score) ==
    BestStrategy(feature_score, history_score)

_select_strategy_by_scores(feature_score, history_score) ==
    LET best_strategy == BestStrategy(feature_score, history_score)
        max_score     == FinalScore(feature_score, history_score, best_strategy)
        hybrid_score  == FinalScore(feature_score, history_score, "hybrid")
    IN  IF best_strategy # "hybrid" /\ max_score - hybrid_score < HybridMargin
        THEN "hybrid"
        ELSE best_strategy

_determine_best_strategy(query, has_logs, logs, fault) ==
    _select_strategy_by_scores(
        _analyze_query_features(query),
        _analyze_historical_performance(query, has_logs, logs, fault))

(***************************************************************************)
(* Search results.  A chunk of the index is [document_id, head, tail,      *)
(* title]: head stands for the first 50 characters of its content and tail *)
(* for the rest, so that content[:50] is head.  A raw hit of a retriever   *)
(* is [chunk, score].  A SearchResult is [id, title, content, document_id, *)
(* score, cluster]; cluster "" stands for None (a cluster name is never    *)
(* empty), and id, a fresh uuid4 in the code, is a number unique within    *)
(* the request.                                                            *)
(***************************************************************************)
ContentPrefixLen == 50

Content(chunk) == [ head |-> chunk.head, tail |-> chunk.tail ]

\* f"{result.document_id}:{result.content[:50]}"
result_key(result) == << result.document_id, result.content.head >>

\* SearchResult(id=str(uuid.uuid4()), title=item.get("title", ""), ...)
ToSearchResult(hit, id) ==
    [ id          |-> id,
      title       |-> hit.chunk.title,
      content     |-> Content(hit.chunk),
      document_id |-> hit.chunk.document_id,
      score       |-> hit.score,
      cluster     |-> "" ]

\* the loop "if hit.score < min_score: continue" of VectorService.search and
\* FulltextService.search
FilterHits(raw, min_score) ==
    LET Kept(hit) == ~(hit.score < min_score)
    IN  SelectSeq(raw, Kept)

ToResults(hits, id_base) ==
    [ i \in 1..Len(hits) |-> ToSearchResult(hits[i], id_base + i) ]

ScoreGt(a, b) == a.score > b.score

\* list.sort(key=lambda x: x.score, reverse=True): a stable sort, results
\* of equal score keep their order
SortByScore(s) ==
    LET n == Len(s)
        rank(i) ==
            1 + Cardinality({ j \in 1..n : ScoreGt(s[j], s[i]) })
              + Cardinality({ j \in 1..(i - 1) : s[j].score = s[i].score })
    IN  [ p \in 1..n |-> s[CHOOSE i \in 1..n : rank(i) = p] ]

(***************************************************************************)
(* Legacy hybrid fusion: the part of _legacy_hybrid_search after the two   *)
(* retriever calls.  result_map is the dict in insertion order, a sequence *)
(* of [key, result, semantic_score, fulltext_score].                       *)
(***************************************************************************)
KeyIndex(result_map, key) ==
    IF \E i \in 1..Len(result_map) : result_map[i].key = key
    THEN CHOOSE i \in 1..Len(result_map) : result_map[i].key = key
    ELSE 0

\* result_map[result_key] = {"result": result, "semantic_score": ..., ...}
PutEntry(result_map, entry) ==
    LET i == KeyIndex(result_map, entry.key)
    IN  IF i = 0 THEN Append(result_map, entry)
                 ELSE [ result_map EXCEPT ![i] = entry ]

RECURSIVE AddSemantic(_, _)
AddSemantic(result_map, semantic) ==
    IF semantic = << >> THEN result_map
    ELSE AddSemantic(
            PutEntry(result_map,
                     [ key            |-> result_key(Head(semantic)),
                       result         |-> Head(semantic),
                       semantic_score |-> Head(semantic).score,
                       fulltext_score |-> 0 ]),
            Tail(semantic))

\* every fulltext result inserted as a new candidate, its key never looked up
RECURSIVE AddFulltextNoMerge(_, _)
AddFulltextNoMerge(result_map, fulltext) ==
    IF fulltext = << >> THEN result_map
    ELSE AddFulltextNoMerge(
            Append(result_map,
                   [ key            |-> result_key(Head(fulltext)),
                     result         |-> Head(fulltext),
                     semantic_score |-> 0,
                     fulltext_score |-> Head(fulltext).score ]),
            Tail(fulltext))

RECURSIVE AddFulltext(_, _)
AddFulltext(result_map, fulltext) ==
    IF fulltext = << >> THEN result_map
    ELSE LET result == Head(fulltext)
             i      == KeyIndex(result_map, result_key(result))
         IN  AddFulltext(
                IF i # 0
                THEN [ result_map EXCEPT ![i].fulltext_score = result.score ]
                ELSE Append(result_map,
                            [ key            |-> result_key(result),
                              result         |-> result,
                              semantic_score |-> 0,
                              fulltext_score |-> result.score ]),
                Tail(fulltext))

\* data["semantic_score"] * semantic_weight + data["fulltext_score"] *
\* fulltext_weight; scores in 0.001, weights in 0.1
CombinedScore(data, semantic_weight, fulltext_weight) ==
    (data.semantic_score * semantic_weight
        + data.fulltext_score * fulltext_weight) \div 10

\* the fusion without the final sort
FuseUnsorted(semantic, fulltext, semantic_weight, fulltext_weight, min_score) ==
    LET result_map == AddFulltext(AddSemantic(<< >>, semantic), fulltext)
        rescored   == [ i \in 1..Len(result_map) |->
                          [ result_map[i].result EXCEPT !.score =
                              CombinedScore(result_map[i], semantic_weight,
                                            fulltext_weight) ] ]
        Kept(result) == result.score >= min_score
    IN  SelectSeq(rescored, Kept)

Fuse(semantic, fulltext, semantic_weight, fulltext_weight, min_score) ==
    LET result_map == AddFulltext(AddSemantic(<< >>, semantic), fulltext)
        rescored   == [ i \in 1..Len(result_map) |->
                          [ result_map[i].result EXCEPT !.score =
                              CombinedScore(result_map[i], semantic_weight,
                                            fulltext_weight) ] ]
        Kept(result) == result.score >= min_score
    IN  SortByScore(SelectSeq(rescored, Kept))

(***************************************************************************)
(* Reranking: RerankingService.rerank and SearchService._rerank_results.   *)
(***************************************************************************)
FallbackScore == 1000

\* cosine similarities the relevance model can compute, in 0.001
CosineValues == { -500, 800 }

\* the similarity passed on as it is
ClampNone(score) == score

\* max(0.0, min(1.0, score))
Clamp(score) == Max(0, Min(1000, score))

\* what the relevance model can answer for n texts: n cosine similarities
\* clamped to [0, 1]
RerankScores == { Clamp(c) : c \in CosineValues }

ModelScoreLists(n) == [ 1..n -> RerankScores ]

\* return [1.0] * len(texts)
UniformScores(n) == [ i \in 1..n |-> FallbackScore ]

\* RerankingService.rerank for n texts: the fallback when the model is not
\* loaded or the inference raises, the clamped similarities otherwise
rerank(n, has_model, raised, similarities) ==
    IF ~has_model \/ raised
    THEN UniformScores(n)
    ELSE [ i \in 1..n |-> Clamp(similarities[i]) ]

\* the scores written, then a sort that turns round the results of equal score
RerankResultsTiesReversed(rs, reranked_scores) ==
    LET rescored == [ i \in 1..Len(rs) |->
                        [ rs[i] EXCEPT !.score = reranked_scores[i] ] ]
    IN  SortByScore([ i \in 1..Len(rs) |-> rescored[Len(rs) + 1 - i] ])

\* result.score = reranked_scores[i] for every result, then the sort
_rerank_results(rs, reranked_scores) ==
    SortByScore([ i \in 1..Len(rs) |->
                    [ rs[i] EXCEPT !.score = reranked_scores[i] ] ])

(***************************************************************************)
(* Clustering: SearchService._cluster_results.  labels[i] is the DBSCAN    *)
(* label of results[i]; with min_samples=1 every point is a core point, so *)
(* the labels are 0, 1, ... in the order in which the clusters are first   *)
(* met.                                                                    *)
(***************************************************************************)
Labelings(n) ==
    { l \in [ 1..n -> 0..(n - 1) ] :
        \A i \in 1..n :
            \/ l[i] = 0
            \/ \E j \in 1..(i - 1) : l[j] = l[i] - 1 }

\* "聚类 N"
ClusterLabel(n) == << "Cluster 1", "Cluster 2", "Cluster 3", "Cluster 4" >>[n]

\* the elements of s at the positions of I, from position i on, in order
RECURSIVE PickFrom(_, _, _)
PickFrom(s, I, i) ==
    IF i > Len(s) THEN << >>
    ELSE (IF i \in I THEN << s[i] >> ELSE << >>) \o PickFrom(s, I, i + 1)

\* cluster_map[cluster_id]: the members in input order
ClusterMembers(rs, labels, cluster_id) ==
    PickFrom(rs, { i \in 1..Len(rs) : labels[i] = cluster_id }, 1)

\* cluster_map.keys(): the labels in first-seen order
ClusterIds(labels) ==
    PickFrom(labels,
             { i \in 1..Len(labels) :
                 \A j \in 1..(i - 1) : labels[j] # labels[i] }, 1)

\* the last member taken for the best one
LastResult(members) == members[Len(members)]

\* max(cluster_results, key=lambda x: x.score): the first maximum
TopResult(members) ==
    members[CHOOSE i \in 1..Len(members) :
               /\ \A j \in 1..Len(members) : members[j].score <= members[i].score
               /\ \A j \in 1..(i - 1) : members[j].score < members[i].score]

\* top_result.title if top_result.title else f"聚类 {cluster_id + 1}"
ClusterName(rs, labels, cluster_id) ==
    LET top_result == TopResult(ClusterMembers(rs, labels, cluster_id))
    IN  IF top_result.title # "" THEN top_result.title
                                 ELSE ClusterLabel(cluster_id + 1)

\* the ClusterInfo list, one entry per cluster in first-seen order
ClusterInfos(rs, labels) ==
    LET ids == ClusterIds(labels)
    IN  [ k \in 1..Len(ids) |->
            [ name  |-> ClusterName(rs, labels, ids[k]),
              count |-> Len(ClusterMembers(rs, labels, ids[k])) ] ]

\* the cluster ids in descending order
SortedIdsDescending(labels) ==
    LET S == Range(labels)
        n == Cardinality(S)
    IN  [ p \in 1..n |->
            CHOOSE c \in S : Cardinality({ d \in S : d > c }) = p - 1 ]

\* sorted(cluster_map.keys())
SortedIds(labels) ==
    LET S == Range(labels)
        n == Cardinality(S)
    IN  [ p \in 1..n |->
            CHOOSE c \in S : Cardinality({ d \in S : d < c }) = p - 1 ]

\* the reorganised list with the members of a cluster left in input order
ClusteredResultsInputOrder(rs, labels) ==
    LET named == [ i \in 1..Len(rs) |->
                     [ rs[i] EXCEPT !.cluster =
                         ClusterName(rs, labels, labels[i]) ] ]
        ids   == SortedIds(labels)
    IN  Concat([ p \in 1..Len(ids) |-> ClusterMembers(named, labels, ids[p]) ])

\* the reorganised list: cluster after cluster in ascending id, each sorted
\* by descending score, every member carrying its cluster name
ClusteredResults(rs, labels) ==
    LET named == [ i \in 1..Len(rs) |->
                     [ rs[i] EXCEPT !.cluster =
                         ClusterName(rs, labels, labels[i]) ] ]
        ids   == SortedIds(labels)
    IN  Concat([ p \in 1..Len(ids) |->
                    SortByScore(ClusterMembers(named, labels, ids[p])) ])

\* the boundary taken at no result only
TooFewNone(rs) == Len(rs) < 1

\* if len(results) <= 1
TooFew(rs) == Len(rs) <= 1

\* where _cluster_results can raise before it touches a result: in
\* encode_batch, in DBSCAN(...).fit, or while it builds cluster_map
ClusterFaults == { "none", "encode_batch", "dbscan", "cluster_map" }

\* _cluster_results: [results, clusters] and whether encode_batch was called
_cluster_results(rs, fault, labels) ==
    IF TooFew(rs)
    THEN [ results |-> rs, clusters |-> << >>, encoded |-> FALSE ]
    ELSE IF fault # "none"
         THEN [ results |-> rs, clusters |-> << >>, encoded |-> TRUE ]
         ELSE [ results  |-> ClusteredResults(rs, labels),
                clusters |-> ClusterInfos(rs, labels),
                encoded  |-> TRUE ]

(***************************************************************************)
(* What the index holds and what a search call can be asked.               *)
(***************************************************************************)
ChunkA == [ document_id |-> "d1", head |-> "h1", tail |-> "t1", title |-> "T1" ]
ChunkB == [ document_id |-> "d1", head |-> "h1", tail |-> "t2", title |-> "" ]
ChunkC == [ document_id |-> "d2", head |-> "h1", tail |-> "t1", title |-> "T2" ]

Chunks == { ChunkA, ChunkB, ChunkC }

RawScores == { 500, 900 }

Hits == [ chunk : Chunks, score : RawScores ]

\* What collection.search can return for a limit: at most limit hits of
\* distinct chunks, best first.
RawLists(limit) ==
    { raw \in SeqsUpTo(Hits, Min(MaxHits, Max(limit, 0))) :
        /\ \A i, j \in 1..Len(raw) : i < j => raw[i].chunk # raw[j].chunk
        /\ \A i \in 1..(Len(raw) - 1) : raw[i].score >= raw[i + 1].score }

QueryShort == << "a" >>
QueryQuoted == << "\"", "a", "\"" >>
QueryWhy == << "U539F", "U56E0", "a", "b", "c", "d", "e", "f", "g", "h", "i" >>

Queries == { QueryShort, QueryQuoted, QueryWhy }

StrategyArgs == { "auto", "semantic", "fulltext", "hybrid", "keyword" }

MaxResultsArgs == { 0, 1, 2 }

MinScoreArgs == { 700 }

\* time.time() - start_time, in whole seconds
ResponseTimes == { 1 }

\* The text of the query matters to automatic selection and to the log
\* only: an explicit strategy is asked with one query.
Requests ==
    { r \in [ query : Queries, strategy : StrategyArgs,
              semantic_weight : { 7 }, fulltext_weight : { 3 },
              max_results : MaxResultsArgs, min_score : MinScoreArgs,
              use_reranking : BOOLEAN, use_clustering : BOOLEAN ] :
        r.strategy # "auto" => r.query = QueryShort }

\* The in-memory query log an earlier call on the same service can have left.
EarlierLogs ==
    { << >> } \cup
    { << [ query |-> QueryShort, strategy |-> s, response_time |-> 0,
           result_count |-> 1, similarity |-> << >> ] >> :
        s \in { "fulltext", "semantic" } }

Stage(name, out) == [ stage |-> name, out |-> out ]

Raised(error) == [ kind |-> "raised", error |-> error, value |-> << >> ]

Returned(value) == [ kind |-> "returned", error |-> "", value |-> value ]

(***************************************************************************)
(* State of a freshly constructed SearchService on which no search call    *)
(* has been made: SearchService.__init__, AnalyticsService.__init__,       *)
(* RerankingService.__init__.                                              *)
(***************************************************************************)
NoReq == [ query |-> << >>, strategy |-> "auto", semantic_weight |-> 7,
           fulltext_weight |-> 3, max_results |-> 0, min_score |-> 0,
           use_reranking |-> FALSE, use_clustering |-> FALSE ]

NoEnv == [ semantic |-> << >>, fulltext |-> << >> ]

NoOutcome == [ kind |-> "none", error |-> "", value |-> << >> ]

Constructed ==
    /\ pc = "idle"
    /\ req = NoReq
    /\ strategy = "auto"
    /\ results = << >>
    /\ semantic_results = << >>
    /\ strategy_used = "auto"
    /\ clusters = << >>
    /\ db_logs = << >>
    /\ env = NoEnv
    /\ trace = << >>
    /\ outcome = NoOutcome

service_vars == << pc, req, strategy, results, semantic_results,
                   strategy_used, clusters, conn, search_logs, db_logs,
                   model, env, trace, outcome >>

(***************************************************************************)
(* SearchService.search, one action per stretch between suspension points. *)
(***************************************************************************)
Init ==
    /\ Constructed
    /\ conn \in BOOLEAN
    /\ model \in BOOLEAN
    /\ search_logs \in (IF conn THEN { << >> } ELSE EarlierLogs)
    /\ fn_args = << >>
    /\ fn_ret = [ done |-> FALSE, value |-> "" ]
    /\ tasks = << >>

\* the call: search(query, knowledge_base_ids, strategy, ...)
Search ==
    /\ pc = "idle"
    /\ \E r \in Requests :
          /\ req' = r
          /\ strategy' = r.strategy
    /\ pc' = "resolve"
    /\ UNCHANGED << results, semantic_results, strategy_used, clusters, conn,
                    search_logs, db_logs, model, env, trace, outcome,
                    fn_args, fn_ret >>
    /\ UNCHANGED tasks

\* the selection run whatever strategy the caller asked for
IsAutoAlways == strategy = strategy

\* line 45: if strategy == "auto"
IsAuto == strategy = "auto"

\* lines 44-60: strategy resolution, self.strategy_used, the dispatch
ResolveStrategy ==
    /\ pc = "resolve"
    /\ \E fault \in HistoryFaults(search_logs) :
       LET auto     == IsAuto
           resolved == IF auto
                       THEN _determine_best_strategy(req.query, ~conn,
                                                     search_logs, fault)
                       ELSE strategy
           scored   == IF auto
                       THEN << Stage("feature_scorer", << >>),
                               Stage("history_scorer", << >>) >>
                       ELSE << >>
       IN  /\ strategy' = resolved
           /\ strategy_used' = resolved
           /\ search_logs' = IF auto /\ ~conn
                             THEN LogsAfterLookup(req.query, search_logs, fault)
                             ELSE search_logs
           /\ trace' = trace \o scored \o << Stage("strategy_resolved", << >>) >>
           /\ IF resolved \in { "semantic", "fulltext", "hybrid" }
              THEN /\ pc' = resolved
                   /\ outcome' = outcome
              ELSE /\ pc' = "raised"
                   /\ outcome' = Raised("ValueError")
    /\ UNCHANGED << req, results, semantic_results, clusters, conn, db_logs,
                    model, env, fn_args, fn_ret >>
    /\ UNCHANGED tasks

\* a retriever error answered with an empty list instead of "raise"
RetrievalFailureSwallowed(stage) ==
    /\ pc' = "rerank"
    /\ outcome' = outcome
    /\ trace' = Append(trace, Stage(stage, << >>))

\* "except Exception as e: ... raise" of _semantic_search, _fulltext_search,
\* _legacy_hybrid_search and _hybrid_search: the error of the retriever call
\* leaves search
RetrievalFailure(stage) ==
    /\ pc' = "raised"
    /\ outcome' = Raised("RetrievalFailure")
    /\ trace' = Append(trace, Stage(stage, << >>))

\* _semantic_search: encode_text, then VectorService.search; either raises
\* or the hits at or above min_score come back
SemanticSearch ==
    /\ pc = "semantic"
    /\ \/ /\ RetrievalFailure("semantic_search_raised")
          /\ UNCHANGED << results, env >>
       \/ \E raw \in RawLists(req.max_results * 2) :
             /\ env' = [ env EXCEPT !.semantic = raw ]
             /\ results' = ToResults(FilterHits(raw, req.min_score), 0)
             /\ trace' = Append(trace, Stage("semantic_search", results'))
             /\ pc' = "rerank"
             /\ outcome' = outcome
    /\ UNCHANGED << req, strategy, semantic_results, strategy_used, clusters,
                    conn, search_logs, db_logs, model, fn_args, fn_ret >>
    /\ UNCHANGED tasks

\* _fulltext_search: FulltextService.search raises or returns
FulltextSearch ==
    /\ pc = "fulltext"
    /\ \/ /\ RetrievalFailure("fulltext_search_raised")
          /\ UNCHANGED << results, env >>
       \/ \E raw \in RawLists(req.max_results * 2) :
             /\ env' = [ env EXCEPT !.fulltext = raw ]
             /\ results' = ToResults(FilterHits(raw, req.min_score), MaxHits)
             /\ trace' = Append(trace, Stage("fulltext_search", results'))
             /\ pc' = "rerank"
             /\ outcome' = outcome
    /\ UNCHANGED << req, strategy, semantic_results, strategy_used, clusters,
                    conn, search_logs, db_logs, model, fn_args, fn_ret >>
    /\ UNCHANGED tasks

\* a native hybrid error that leaves _hybrid_search
NativeHybridSearchRaised ==
    /\ pc = "hybrid"
    /\ pc' = "raised"
    /\ outcome' = Raised("NativeHybridFailure")
    /\ trace' = Append(trace, Stage("native_hybrid_failed", << >>))
    /\ UNCHANGED << req, strategy, results, semantic_results, strategy_used,
                    clusters, conn, search_logs, db_logs, model, env,
                    fn_args, fn_ret >>
    /\ UNCHANGED tasks

\* a native attempt that fails only after it has queried the vector index
NativeHybridSearchThenFails ==
    /\ pc = "hybrid"
    /\ pc' = "legacy_semantic"
    /\ trace' = trace \o << Stage("semantic_search", << >>),
                             Stage("native_hybrid_failed", << >>) >>
    /\ UNCHANGED << req, strategy, results, semantic_results, strategy_used,
                    clusters, conn, search_logs, db_logs, model, env, outcome,
                    fn_args, fn_ret >>
    /\ UNCHANGED tasks

\* _hybrid_search: _can_use_native_hybrid_search returns True, and
\* _native_hybrid_search raises inside its try (encode_text fails, or the
\* name Collection, which search_service.py never imports, is unbound);
\* its except clause goes on to _legacy_hybrid_search
\* a native hybrid search that never comes back: the request stays where
\* it is
NativeHybridSearchPending ==
    /\ pc = "hybrid"
    /\ UNCHANGED vars

NativeHybridSearch ==
    /\ pc = "hybrid"
    /\ pc' = "legacy_semantic"
    /\ trace' = Append(trace, Stage("native_hybrid_failed", << >>))
    /\ UNCHANGED << req, strategy, results, semantic_results, strategy_used,
                    clusters, conn, search_logs, db_logs, model, env, outcome,
                    fn_args, fn_ret >>
    /\ UNCHANGED tasks

\* min_score * 0.8
LegacyMinScore(min_score) == (min_score * 8) \div 10

\* _legacy_hybrid_search, line 446
LegacySemanticSearch ==
    /\ pc = "legacy_semantic"
    /\ \/ /\ RetrievalFailure("semantic_search_raised")
          /\ UNCHANGED << semantic_results, env >>
       \/ \E raw \in RawLists(req.max_results * 2) :
             /\ env' = [ env EXCEPT !.semantic = raw ]
             /\ semantic_results' =
                   ToResults(FilterHits(raw, LegacyMinScore(req.min_score)), 0)
             /\ trace' = Append(trace, Stage("semantic_search", semantic_results'))
             /\ pc' = "legacy_fulltext"
             /\ outcome' = outcome
    /\ UNCHANGED << req, strategy, results, strategy_used, clusters, conn,
                    search_logs, db_logs, model, fn_args, fn_ret >>
    /\ UNCHANGED tasks

\* _legacy_hybrid_search, lines 447-493: the fulltext call and the fusion
LegacyFulltextSearch ==
    /\ pc = "legacy_fulltext"
    /\ \/ /\ RetrievalFailure("fulltext_search_raised")
          /\ UNCHANGED << results, env >>
       \/ \E raw \in RawLists(req.max_results * 2) :
             LET fulltext_results ==
                    ToResults(FilterHits(raw, LegacyMinScore(req.min_score)),
                              MaxHits)
             IN  /\ env' = [ env EXCEPT !.fulltext = raw ]
                 /\ results' = Fuse(semantic_results, fulltext_results,
                                    req.semantic_weight, req.fulltext_weight,
                                    req.min_score)
                 /\ trace' = trace \o << Stage("fulltext_search", fulltext_results),
                                         Stage("fused", results') >>
                 /\ pc' = "rerank"
                 /\ outcome' = outcome
    /\ UNCHANGED << req, strategy, semantic_results, strategy_used, clusters,
                    conn, search_logs, db_logs, model, fn_args, fn_ret >>
    /\ UNCHANGED tasks

\* reranking run whenever it is asked for, whatever the number of results
RerankWheneverAsked ==
    /\ pc = "rerank"
    /\ IF req.use_reranking
       THEN \/ /\ results' = _rerank_results(results, UniformScores(Len(results)))
               /\ trace' = Append(trace, Stage("reranked_uniform", results'))
            \/ /\ model
               /\ \E reranked_scores \in ModelScoreLists(Len(results)) :
                     /\ results' = _rerank_results(results, reranked_scores)
                     /\ trace' = Append(trace, Stage("reranked", results'))
       ELSE UNCHANGED << results, trace >>
    /\ pc' = "cluster"
    /\ UNCHANGED << req, strategy, semantic_results, strategy_used, clusters,
                    conn, search_logs, db_logs, model, env, outcome, fn_args,
                    fn_ret >>
    /\ UNCHANGED tasks

\* lines 62-64: the relevance model is missing or raises (uniform scores),
\* or it scores every text
Rerank ==
    /\ pc = "rerank"
    /\ IF req.use_reranking /\ Len(results) > 1
       THEN \/ /\ results' = _rerank_results(results, UniformScores(Len(results)))
               /\ trace' = Append(trace, Stage("reranked_uniform", results'))
            \/ /\ model
               /\ \E reranked_scores \in ModelScoreLists(Len(results)) :
                     /\ results' = _rerank_results(results, reranked_scores)
                     /\ trace' = Append(trace, Stage("reranked", results'))
       ELSE UNCHANGED << results, trace >>
    /\ pc' = "cluster"
    /\ UNCHANGED << req, strategy, semantic_results, strategy_used, clusters,
                    conn, search_logs, db_logs, model, env, outcome, fn_args,
                    fn_ret >>
    /\ UNCHANGED tasks

\* a clustering error that is raised again instead of answered with the input
ClusterFailureRaised ==
    /\ pc' = "raised"
    /\ outcome' = Raised("ClusterFailure")
    /\ trace' = Append(trace, Stage("cluster_failed", results))
    /\ UNCHANGED << results, clusters >>

\* a clustering error that comes after the results were given cluster names
ClusterFailureNamed ==
    /\ results' = [ i \in 1..Len(results) |->
                      [ results[i] EXCEPT !.cluster = ClusterLabel(1) ] ]
    /\ clusters' = << >>
    /\ trace' = Append(trace, Stage("cluster_failed", results'))
    /\ pc' = "truncate"
    /\ UNCHANGED outcome

\* "except Exception as e: ... return results, []" of _cluster_results
ClusterFailure ==
    /\ clusters' = << >>
    /\ trace' = Append(trace, Stage("cluster_failed", results))
    /\ pc' = "truncate"
    /\ UNCHANGED << results, outcome >>

\* lines 66-69: encode_batch or DBSCAN raises (the input comes back with no
\* clusters), or the results are labelled
Cluster ==
    /\ pc = "cluster"
    /\ IF req.use_clustering /\ Len(results) > 1
       THEN \/ ClusterFailure
            \/ \E labels \in Labelings(Len(results)) :
                  /\ results' = ClusteredResults(results, labels)
                  /\ clusters' = ClusterInfos(results, labels)
                  /\ trace' = Append(trace, Stage("clustered", results'))
                  /\ pc' = "truncate"
                  /\ outcome' = outcome
       ELSE /\ pc' = "truncate"
            /\ UNCHANGED << results, clusters, trace, outcome >>
    /\ UNCHANGED << req, strategy, semantic_results, strategy_used, conn,
                    search_logs, db_logs, model, env, fn_args, fn_ret >>
    /\ UNCHANGED tasks

\* results[:max_results + 1]
TruncateOneMore ==
    /\ pc = "truncate"
    /\ results' = Prefix(results, req.max_results + 1)
    /\ trace' = Append(trace, Stage("truncated", results'))
    /\ pc' = "log"
    /\ UNCHANGED << req, strategy, semantic_results, strategy_used, clusters,
                    conn, search_logs, db_logs, model, env, outcome, fn_args,
                    fn_ret >>
    /\ UNCHANGED tasks

\* line 72: results = results[:max_results]
Truncate ==
    /\ pc = "truncate"
    /\ results' = Prefix(results, req.max_results)
    /\ trace' = Append(trace, Stage("truncated", results'))
    /\ pc' = "log"
    /\ UNCHANGED << req, strategy, semantic_results, strategy_used, clusters,
                    conn, search_logs, db_logs, model, env, outcome, fn_args,
                    fn_ret >>
    /\ UNCHANGED tasks

\* the record written with the strategy the caller asked for
LogEntryAsRequested(response_time) ==
    [ query |-> req.query, strategy |-> req.strategy,
      response_time |-> response_time, result_count |-> Len(results),
      similarity |-> << >> ]

\* log_search(query=query, strategy=strategy, response_time=response_time,
\* result_count=len(results), ...)
LogEntry(response_time) ==
    [ query |-> req.query, strategy |-> strategy,
      response_time |-> response_time, result_count |-> Len(results),
      similarity |-> << >> ]

\* lines 74-89: AnalyticsService.log_search (the insert through conn can
\* fail, which log_search swallows) and the return
LogSearch ==
    /\ pc = "log"
    /\ \E response_time \in ResponseTimes :
          IF conn
          THEN /\ \/ /\ db_logs' = Append(db_logs, LogEntry(response_time))
                     /\ trace' = Append(trace, Stage("logged", << >>))
                  \/ /\ db_logs' = db_logs
                     /\ trace' = Append(trace, Stage("log_failed", << >>))
               /\ UNCHANGED search_logs
          ELSE /\ search_logs' = Append(search_logs, LogEntry(response_time))
               /\ trace' = Append(trace, Stage("logged", << >>))
               /\ UNCHANGED db_logs
    /\ outcome' = Returned(results)
    /\ pc' = "done"
    /\ UNCHANGED << req, strategy, results, semantic_results, strategy_used,
                    clusters, conn, model, env, fn_args, fn_ret >>
    /\ UNCHANGED tasks

Next ==
    \/ Search
    \/ ResolveStrategy
    \/ SemanticSearch
    \/ FulltextSearch
    \/ NativeHybridSearch
    \/ LegacySemanticSearch
    \/ LegacyFulltextSearch
    \/ Rerank
    \/ Cluster
    \/ Truncate
    \/ LogSearch

Spec == Init /\ [][Next]_vars

(***************************************************************************)
(* Strategy selection on its own: _select_strategy_by_scores applied to    *)
(* score dictionaries drawn from a grid that holds margins below, at and   *)
(* above the 0.1 threshold.                                                *)
(***************************************************************************)
FeatureGrid == { 0, 4000, 5000, 6000 }
HistoryGrid == { 0, 1000, 7900 }

ScoreDicts(G) == [ semantic : G, fulltext : G, hybrid : G ]

InitSelect ==
    /\ Constructed
    /\ conn = FALSE
    /\ model = TRUE
    /\ search_logs = << >>
    /\ fn_args \in [ feature_score : ScoreDicts(FeatureGrid),
                     history_score : ScoreDicts(HistoryGrid) ]
    /\ fn_ret = [ done |-> FALSE, value |-> "" ]
    /\ tasks = << >>

SelectStrategy ==
    /\ ~fn_ret.done
    /\ fn_ret' = [ done  |-> TRUE,
                   value |-> _select_strategy_by_scores(
                                 fn_args.feature_score, fn_args.history_score) ]
    /\ UNCHANGED << service_vars, fn_args >>
    /\ UNCHANGED tasks

NextSelect == SelectStrategy

SpecSelect == InitSelect /\ [][NextSelect]_vars

(***************************************************************************)
(* Automatic selection on its own: _determine_best_strategy applied to     *)
(* queries built from a few pieces of text, on a service whose query log   *)
(* is empty.                                                               *)
(***************************************************************************)
Atoms ==
    { << "a" >>,
      << " " >>,
      << "\"" >>,
      << "-" >>,
      << "U5B9A", "U4E49" >>,
      << "U5982", "U4F55" >>,
      << "v", "s" >>,
      << "U539F", "U56E0" >>,
      << "b", "c", "d", "e", "f", "g" >>,
      << "a", " ", "b", " ", "c", " ", "d", " ", "e", " ", "f", " ", "g", " ", "h" >> }

\* the queries the API hands over: api/search.py strips the text and
\* refuses an empty one
AtomQueries ==
    { q \in { Concat(ss) : ss \in SeqsUpTo(Atoms, MaxAtoms) } :
        q # << >> /\ Head(q) # " " /\ q[Len(q)] # " " }

InitDetermine ==
    /\ Constructed
    /\ conn = FALSE
    /\ model = TRUE
    /\ search_logs = << >>
    /\ fn_args \in [ query : AtomQueries ]
    /\ fn_ret = [ done |-> FALSE, value |-> "" ]
    /\ tasks = << >>

DetermineBestStrategy ==
    /\ ~fn_ret.done
    /\ \E fault \in HistoryFaults(search_logs) :
          /\ fn_ret' = [ done  |-> TRUE,
                         value |-> _determine_best_strategy(
                                       fn_args.query, ~conn, search_logs, fault) ]
          /\ search_logs' = IF ~conn
                            THEN LogsAfterLookup(fn_args.query, search_logs, fault)
                            ELSE search_logs
    /\ UNCHANGED << pc, req, strategy, results, semantic_results,
                    strategy_used, clusters, conn, db_logs, model, env,
                    trace, outcome, fn_args >>
    /\ UNCHANGED tasks

NextDetermine == DetermineBestStrategy

SpecDetermine == InitDetermine /\ [][NextDetermine]_vars

(***************************************************************************)
(* Legacy hybrid fusion on its own: Fuse applied to any two lists of       *)
(* results, in any order and with repeated candidate keys.                 *)
(***************************************************************************)
ChunkD == [ document_id |-> "d2", head |-> "h2", tail |-> "t1", title |-> "T3" ]

FuseHits == [ chunk : Chunks \cup { ChunkD }, score : RawScores ]

FuseLists == SeqsUpTo(FuseHits, MaxFuseLen)

WeightArgs == { << 7, 3 >> }

FuseMinScores == { 200, 700 }

InitFuse ==
    /\ Constructed
    /\ conn = FALSE
    /\ model = TRUE
    /\ search_logs = << >>
    /\ \E sem \in FuseLists, ft \in FuseLists, w \in WeightArgs,
          m \in FuseMinScores :
          fn_args = [ semantic        |-> ToResults(sem, 0),
                      fulltext        |-> ToResults(ft, MaxFuseLen),
                      semantic_weight |-> w[1],
                      fulltext_weight |-> w[2],
                      min_score       |-> m ]
    /\ fn_ret = [ done |-> FALSE, value |-> << >> ]
    /\ tasks = << >>

FuseResults ==
    /\ ~fn_ret.done
    /\ fn_ret' = [ done  |-> TRUE,
                   value |-> Fuse(fn_args.semantic, fn_args.fulltext,
                                  fn_args.semantic_weight,
                                  fn_args.fulltext_weight, fn_args.min_score) ]
    /\ UNCHANGED << service_vars, fn_args >>
    /\ UNCHANGED tasks

NextFuse == FuseResults

SpecFuse == InitFuse /\ [][NextFuse]_vars

(***************************************************************************)
(* Properties of one search call (Spec).                                   *)
(***************************************************************************)
HasStage(name) == \E i \in 1..Len(trace) : trace[i].stage = name

LastStage == IF trace = << >> THEN "" ELSE trace[Len(trace)].stage

RaisedStages == { "semantic_search_raised", "fulltext_search_raised" }

ValidStrategies == { "auto", "semantic", "fulltext", "hybrid" }

\* the entries earlier calls left in the in-memory log, similarity aside
EarlierEntries == UNION { Range(l) : l \in EarlierLogs }

OnlyEarlierEntries ==
    \A i \in 1..Len(search_logs) :
        [ search_logs[i] EXCEPT !.similarity = << >> ] \in EarlierEntries

\* C1: when a retriever call raises, the error leaves search: the raise is
\* the last thing the call does, no reranking, clustering or truncation
\* follows it, and log_search writes no record for the request.
C1_RetrievalFailurePropagates ==
    \A i \in 1..Len(trace) :
        trace[i].stage \in RaisedStages =>
            /\ i = Len(trace)
            /\ pc = "raised"
            /\ outcome = Raised("RetrievalFailure")
            /\ db_logs = << >>
            /\ OnlyEarlierEntries

C1_Witness ==
    /\ pc = "raised"
    /\ strategy_used = "hybrid"
    /\ LastStage = "fulltext_search_raised"
    /\ HasStage("semantic_search")
    /\ search_logs # << >>

\* C2 as stated: a retrieval failure is the only error search raises.
C2_OnlyRetrievalFailureRaised ==
    outcome.kind = "raised" => outcome.error = "RetrievalFailure"

\* C2: search raises a retrieval failure, or a ValueError before any
\* retrieval when the strategy is none of auto, semantic, fulltext, hybrid;
\* a failure of the native hybrid search, of reranking, of clustering or of
\* log_search is absorbed: the call goes on and returns a list.
C2_ErrorsRaised ==
    /\ outcome.kind = "raised" =>
          \/ /\ outcome.error = "RetrievalFailure"
             /\ LastStage \in RaisedStages
          \/ /\ outcome.error = "ValueError"
             /\ req.strategy \notin ValidStrategies
             /\ LastStage = "strategy_resolved"
    /\ req.strategy \notin ValidStrategies /\ pc \notin { "idle", "resolve" } =>
          outcome = Raised("ValueError")
    /\ LastStage = "native_hybrid_failed" =>
          pc = "legacy_semantic" /\ outcome.kind = "none"
    /\ HasStage("reranked_uniform") =>
          pc \in { "cluster", "truncate", "log", "done" }
    /\ HasStage("cluster_failed") => pc \in { "truncate", "log", "done" }
    /\ LastStage = "log_failed" => pc = "done" /\ outcome = Returned(results)
    /\ pc = "done" => outcome.kind = "returned"

C2_Witness ==
    /\ pc = "done"
    /\ outcome.kind = "returned"
    /\ HasStage("native_hybrid_failed")
    /\ HasStage("reranked_uniform")
    /\ HasStage("cluster_failed")
    /\ HasStage("log_failed")
    /\ Len(outcome.value) > 0

\* the stages that hand on a result list
ListStages == { "semantic_search", "fulltext_search", "fused", "reranked",
                "reranked_uniform", "clustered", "cluster_failed" }

TruncatedAt == { i \in 1..Len(trace) : trace[i].stage = "truncated" }

\* C3: truncation is the last transformation: it happens once, after
\* retrieval, fusion, reranking and clustering, and for max_results >= 0
\* the list returned is the first min(max_results, n) elements, in order,
\* of the n-element list clustering handed on.
C3_TruncationLast ==
    /\ pc \notin { "log", "done" } => TruncatedAt = { }
    /\ pc \in { "log", "done" } =>
          /\ Cardinality(TruncatedAt) = 1
          /\ \A t \in TruncatedAt :
                /\ t > 1
                /\ trace[t - 1].stage \in ListStages
                /\ \A j \in 1..Len(trace) :
                      trace[j].stage \in ListStages => j < t
                /\ req.max_results >= 0 =>
                      trace[t].out =
                         SubSeq(trace[t - 1].out, 1,
                                Min(req.max_results, Len(trace[t - 1].out)))
                /\ results = trace[t].out
                /\ pc = "done" => outcome = Returned(trace[t].out)

C3_Witness ==
    /\ pc = "done"
    /\ HasStage("reranked")
    /\ \E t \in TruncatedAt :
          /\ t > 1
          /\ trace[t - 1].stage = "clustered"
          /\ Len(trace[t - 1].out) = 2
          /\ req.max_results = 1
          /\ outcome.value = << trace[t - 1].out[1] >>

HitKey(hit) == << hit.chunk.document_id, hit.chunk.head >>

HitsOfKey(raw, key) == { i \in 1..Len(raw) : HitKey(raw[i]) = key }

KeyK == << "d1", "h1" >>

\* C6 as stated: on the hybrid path with weights 0.7 and 0.3 and min_score
\* 0.7, a semantic hit scored 0.9 and a fulltext hit scored 0.5 for the
\* same candidate key K put K into the fused list exactly once, scored 0.78.
C6_WorkedExample ==
    ( /\ pc = "rerank"
      /\ strategy_used = "hybrid"
      /\ req.semantic_weight = 7
      /\ req.fulltext_weight = 3
      /\ req.min_score = 700
      /\ Cardinality(HitsOfKey(env.semantic, KeyK)) = 1
      /\ Cardinality(HitsOfKey(env.fulltext, KeyK)) = 1
      /\ \A i \in HitsOfKey(env.semantic, KeyK) : env.semantic[i].score = 900
      /\ \A i \in HitsOfKey(env.fulltext, KeyK) : env.fulltext[i].score = 500 )
    => /\ Cardinality({ i \in 1..Len(results) :
                          result_key(results[i]) = KeyK }) = 1
       /\ \A i \in 1..Len(results) :
             result_key(results[i]) = KeyK => results[i].score = 780

\* C7: the native hybrid search fails and _hybrid_search goes on to the
\* legacy hybrid search: the native error never leaves the call, and after
\* it the call raises only when a retriever call of the legacy path raises.
C7_NativeFallsBackToLegacy ==
    /\ pc \in { "legacy_semantic", "legacy_fulltext" } =>
          HasStage("native_hybrid_failed")
    /\ \A i \in 1..Len(trace) :
          trace[i].stage = "native_hybrid_failed" =>
             /\ pc # "hybrid"
             /\ i = Len(trace) => pc = "legacy_semantic" /\ outcome.kind = "none"
             /\ i < Len(trace) =>
                   trace[i + 1].stage \in { "semantic_search",
                                            "semantic_search_raised" }
             /\ outcome.kind = "raised" =>
                   /\ outcome.error = "RetrievalFailure"
                   /\ LastStage \in RaisedStages

C7_Witness ==
    /\ pc = "done"
    /\ HasStage("native_hybrid_failed")
    /\ HasStage("fused")
    /\ Len(outcome.value) > 0

FirstRetrievalStages(s) ==
    CASE s = "semantic" -> { "semantic_search", "semantic_search_raised" }
      [] s = "fulltext" -> { "fulltext_search", "fulltext_search_raised" }
      [] s = "hybrid"   -> { "native_hybrid_failed" }
      [] OTHER          -> { }

\* C8: with strategy semantic, fulltext or hybrid the strategy is used as
\* asked: strategy_used is the requested value, neither scorer runs (no
\* scorer stage, no similarity written into the query log), and the first
\* retrieval step is the one of the requested strategy.
C8_ExplicitStrategyUsed ==
    ( /\ req.strategy \in { "semantic", "fulltext", "hybrid" }
      /\ pc \notin { "idle", "resolve" } )
    => /\ strategy_used = req.strategy
       /\ strategy = req.strategy
       /\ ~HasStage("feature_scorer")
       /\ ~HasStage("history_scorer")
       /\ trace[1].stage = "strategy_resolved"
       /\ \A i \in 1..Len(search_logs) :
             search_logs[i].query = req.query /\ search_logs[i].response_time = 0
                => search_logs[i].similarity = << >>
       /\ Len(trace) > 1 => trace[2].stage \in FirstRetrievalStages(req.strategy)

C8_Witness ==
    /\ pc = "done"
    /\ req.strategy = "fulltext"
    /\ strategy_used = "fulltext"
    /\ HasStage("fulltext_search")
    /\ Len(search_logs) = 2
    /\ search_logs[1].query = req.query


(***************************************************************************)
(* Properties of the fusion (SpecFuse).                                    *)
(***************************************************************************)
InputKeys ==
    { result_key(fn_args.semantic[i]) : i \in 1..Len(fn_args.semantic) }
    \cup { result_key(fn_args.fulltext[i]) : i \in 1..Len(fn_args.fulltext) }

OccursIn(list, key) == \E i \in 1..Len(list) : result_key(list[i]) = key

\* the score a list contributes for a key: that of its last result with the
\* key, 0 when it has none
Component(list, key) ==
    IF OccursIn(list, key)
    THEN LET i == CHOOSE i \in 1..Len(list) :
                     /\ result_key(list[i]) = key
                     /\ \A j \in (i + 1)..Len(list) : result_key(list[j]) # key
         IN  list[i].score
    ELSE 0

Combined(key) ==
    (Component(fn_args.semantic, key) * fn_args.semantic_weight
        + Component(fn_args.fulltext, key) * fn_args.fulltext_weight) \div 10

\* C4: the fused output holds at most one candidate per candidate key, and
\* the score of a candidate is semantic_score * semantic_weight +
\* fulltext_score * fulltext_weight, a list in which the key does not occur
\* contributing 0 (a list in which it occurs more than once contributes the
\* score of its last occurrence).
C4_FusionOneCandidatePerKey ==
    fn_ret.done =>
        /\ \A i, j \in 1..Len(fn_ret.value) :
              result_key(fn_ret.value[i]) = result_key(fn_ret.value[j]) => i = j
        /\ \A i \in 1..Len(fn_ret.value) :
              /\ result_key(fn_ret.value[i]) \in InputKeys
              /\ fn_ret.value[i].score = Combined(result_key(fn_ret.value[i]))

C4_Witness ==
    /\ fn_ret.done
    /\ fn_args.min_score = 200
    /\ \E i, j \in 1..Len(fn_ret.value) :
          /\ OccursIn(fn_args.semantic, result_key(fn_ret.value[i]))
          /\ OccursIn(fn_args.fulltext, result_key(fn_ret.value[i]))
          /\ fn_ret.value[i].score = 780
          /\ ~OccursIn(fn_args.semantic, result_key(fn_ret.value[j]))
          /\ fn_ret.value[j].score = 270

\* C5: the fused list holds no candidate whose combined score is below
\* min_score, holds every candidate whose combined score is at least
\* min_score, and is in non-increasing order of combined score.
C5_FusionFilteredSorted ==
    fn_ret.done =>
        /\ \A i \in 1..Len(fn_ret.value) :
              Combined(result_key(fn_ret.value[i])) >= fn_args.min_score
        /\ \A key \in InputKeys :
              Combined(key) >= fn_args.min_score =>
                 OccursIn(fn_ret.value, key)
        /\ \A i \in 1..(Len(fn_ret.value) - 1) :
              fn_ret.value[i].score >= fn_ret.value[i + 1].score

C5_Witness ==
    /\ fn_ret.done
    /\ \E key \in InputKeys : Combined(key) < fn_args.min_score
    /\ Len(fn_ret.value) = 2
    /\ fn_ret.value[1].score > fn_ret.value[2].score
    /\ result_key(fn_args.semantic[1]) = result_key(fn_ret.value[2])

(***************************************************************************)
(* Properties of the selection (SpecSelect, SpecDetermine).                *)
(***************************************************************************)
\* 0.7 * feature + 0.3 * history, in 0.00001
Final(s) == 7 * fn_args.feature_score[s] + 3 * fn_args.history_score[s]

\* C9: _select_strategy_by_scores returns a strategy other than hybrid only
\* if its final score 0.7 * feature + 0.3 * history is the maximum of the
\* three and exceeds the final score of hybrid by at least 0.1; when hybrid
\* has the maximum, or no other strategy exceeds hybrid by 0.1, it returns
\* hybrid.
C9_SelectByScores ==
    fn_ret.done =>
        /\ fn_ret.value \in Range(Strategies)
        /\ fn_ret.value # "hybrid" =>
              /\ \A t \in Range(Strategies) : Final(t) <= Final(fn_ret.value)
              /\ Final(fn_ret.value) - Final("hybrid") >= 10000
        /\ ( \/ \A t \in Range(Strategies) : Final(t) <= Final("hybrid")
             \/ \A t \in { "semantic", "fulltext" } :
                   Final(t) - Final("hybrid") < 10000 )
           => fn_ret.value = "hybrid"

C9_Witness ==
    /\ fn_ret.done
    /\ fn_ret.value = "fulltext"
    /\ Final("fulltext") - Final("hybrid") = 10000
    /\ Final("semantic") > Final("hybrid")

NoKeyword(query) ==
    ~ContainsAny(query, definition_terms \cup operation_terms
                          \cup comparison_terms \cup open_terms)

ShortPlain(query) ==
    /\ Len(query) < 5
    /\ ~HasChar(query, { "\"", "'" })
    /\ NoKeyword(query)

\* C10 as stated: a query shorter than 5 characters with no quote character
\* and no keyword is given "fulltext" by the automatic selection when the
\* history is empty.
C10_ShortQueryFulltext ==
    fn_ret.done /\ ShortPlain(fn_args.query) => fn_ret.value = "fulltext"

\* C10: with empty history, a query shorter than 5 characters with no quote
\* character and no keyword is given "fulltext" when it holds one of the
\* special characters : / + - & | ! ( ) * and "hybrid" when it holds none.
C10_ShortQuerySelection ==
    fn_ret.done /\ ShortPlain(fn_args.query) =>
        fn_ret.value = IF HasChar(fn_args.query, special_chars)
                       THEN "fulltext" ELSE "hybrid"

C10_Witness ==
    /\ fn_ret.done
    /\ ShortPlain(fn_args.query)
    /\ HasChar(fn_args.query, special_chars)
    /\ ~HasChar(fn_args.query, { " " })
    /\ fn_ret.value = "fulltext"

(***************************************************************************)
(* The history scorer on its own: _determine_best_strategy on a service    *)
(* that keeps its query log in memory, with an error raised at any point   *)
(* of the scorer or at none.                                               *)
(***************************************************************************)
HistoryQueries == { << "a" >>, << "a", " ", "b" >> }

LoggedQueries == { << "a" >>, << "c" >> }

HistoryEntries ==
    [ query : LoggedQueries, strategy : Range(Strategies),
      response_time : { 0, 1 }, result_count : { 0, 1 },
      similarity : { << >> } ]

InitHistory ==
    /\ Constructed
    /\ conn = FALSE
    /\ model = TRUE
    /\ search_logs \in SeqsUpTo(HistoryEntries, MaxLogs)
    /\ \E query \in HistoryQueries, fault \in HistoryFaults(search_logs) :
          fn_args = [ query |-> query, logs |-> search_logs, fault |-> fault ]
    /\ fn_ret = [ done |-> FALSE, value |-> [ scores |-> ZeroScores, strategy |-> "" ] ]
    /\ tasks = << >>

HistoryLookup ==
    /\ ~fn_ret.done
    /\ fn_ret' =
          [ done  |-> TRUE,
            value |->
               [ scores   |-> _analyze_historical_performance(
                                  fn_args.query, ~conn, search_logs, fn_args.fault),
                 strategy |-> _determine_best_strategy(
                                  fn_args.query, ~conn, search_logs, fn_args.fault) ] ]
    /\ search_logs' = LogsAfterLookup(fn_args.query, search_logs, fn_args.fault)
    /\ UNCHANGED << pc, req, strategy, results, semantic_results,
                    strategy_used, clusters, conn, db_logs, model, env,
                    trace, outcome, fn_args >>
    /\ UNCHANGED tasks

NextHistory == HistoryLookup

SpecHistory == InitHistory /\ [][NextHistory]_vars

(***************************************************************************)
(* Properties of the history scorer (SpecHistory).                         *)
(***************************************************************************)
\* an error was raised: in the lookup, or in the aggregation, which runs
\* only when the lookup found similar queries
HistoryErrorRaised ==
    \/ fn_args.fault.at = "lookup"
    \/ /\ fn_args.fault.at = "aggregation"
       /\ _find_similar_queries(fn_args.query, TRUE, fn_args.logs, NoFault) # << >>

\* C11: when an error is raised while the history scores are computed, in
\* the lookup of similar queries or in the aggregation per strategy, the
\* scorer still returns, every history score is 0, and the strategy selected
\* is the one the feature scores select together with all-zero history.
C11_HistoryErrorSwallowed ==
    fn_ret.done /\ HistoryErrorRaised =>
        /\ fn_ret.value.scores = [ semantic |-> 0, fulltext |-> 0, hybrid |-> 0 ]
        /\ fn_ret.value.strategy =
              _select_strategy_by_scores(
                  _analyze_query_features(fn_args.query),
                  [ semantic |-> 0, fulltext |-> 0, hybrid |-> 0 ])

C11_Witness ==
    /\ fn_ret.done
    /\ fn_args.fault = [ at |-> "aggregation", n |-> 3 ]
    /\ _determine_best_strategy(fn_args.query, TRUE, fn_args.logs, NoFault)
          = "fulltext"
    /\ fn_ret.value.strategy = "hybrid"
    /\ \E i \in 1..Len(search_logs) : search_logs[i].similarity # << >>

(***************************************************************************)
(* Reranking on its own: RerankingService.rerank and _rerank_results on    *)
(* any list of results, the relevance model loaded or not, its inference   *)
(* raising or not.                                                         *)
(***************************************************************************)
InitRerank ==
    /\ Constructed
    /\ conn = FALSE
    /\ model \in BOOLEAN
    /\ search_logs = << >>
    /\ \E hits \in FuseLists : fn_args = [ results |-> ToResults(hits, 0) ]
    /\ fn_ret = [ done  |-> FALSE,
                  value |-> [ fallback |-> FALSE, scores |-> << >>,
                              results |-> << >> ] ]
    /\ tasks = << >>

RerankResults ==
    /\ ~fn_ret.done
    /\ \E raised \in BOOLEAN,
          similarities \in [ 1..Len(fn_args.results) -> CosineValues ] :
          LET reranked_scores ==
                 rerank(Len(fn_args.results), model, raised, similarities)
          IN  fn_ret' =
                 [ done  |-> TRUE,
                   value |-> [ fallback |-> ~model \/ raised,
                               scores   |-> reranked_scores,
                               results  |-> _rerank_results(fn_args.results,
                                                            reranked_scores) ] ]
    /\ UNCHANGED << service_vars, fn_args >>
    /\ UNCHANGED tasks

NextRerank == RerankResults

SpecRerank == InitRerank /\ [][NextRerank]_vars

(***************************************************************************)
(* Properties of reranking (SpecRerank).                                   *)
(***************************************************************************)
\* C12: when the relevance model is not loaded or its inference raises,
\* rerank returns len(texts) scores, all 1.0, and the list _rerank_results
\* returns has the results in the order they had before, each with score 1.0.
C12_RerankFallbackKeepsOrder ==
    fn_ret.done /\ fn_ret.value.fallback =>
        /\ Len(fn_ret.value.scores) = Len(fn_args.results)
        /\ \A i \in 1..Len(fn_ret.value.scores) : fn_ret.value.scores[i] = 1000
        /\ Len(fn_ret.value.results) = Len(fn_args.results)
        /\ \A i \in 1..Len(fn_args.results) :
              fn_ret.value.results[i] = [ fn_args.results[i] EXCEPT !.score = 1000 ]

C12_Witness ==
    /\ fn_ret.done
    /\ model
    /\ fn_ret.value.fallback
    /\ Len(fn_args.results) = 2
    /\ fn_args.results[1].score < fn_args.results[2].score
    /\ fn_ret.value.results[1].id = fn_args.results[1].id

\* C13: rerank returns exactly len(texts) scores, each in [0, 1], with the
\* model and on the fallback; _rerank_results gives every result the score
\* of its position and returns the same results, each once, in
\* non-increasing order of score.
C13_RerankScoresAndPermutation ==
    fn_ret.done =>
        /\ Len(fn_ret.value.scores) = Len(fn_args.results)
        /\ \A i \in 1..Len(fn_ret.value.scores) :
              fn_ret.value.scores[i] >= 0 /\ fn_ret.value.scores[i] <= 1000
        /\ Len(fn_ret.value.results) = Len(fn_args.results)
        /\ \A i \in 1..Len(fn_args.results) :
              Cardinality({ j \in 1..Len(fn_ret.value.results) :
                  fn_ret.value.results[j] =
                     [ fn_args.results[i] EXCEPT !.score = fn_ret.value.scores[i] ] })
                 = 1
        /\ \A j \in 1..(Len(fn_ret.value.results) - 1) :
              fn_ret.value.results[j].score >= fn_ret.value.results[j + 1].score

C13_Witness ==
    /\ fn_ret.done
    /\ ~fn_ret.value.fallback
    /\ fn_ret.value.scores = << 0, 800 >>
    /\ fn_ret.value.results[1].id = fn_args.results[2].id
    /\ fn_args.results[1].score > fn_args.results[2].score

(***************************************************************************)
(* RerankingService.batch_rerank: one rerank coroutine per (query, texts)  *)
(* pair, gathered.  A text list is written by its length.  A coroutine is  *)
(* [pc, failed, similarities, scores]: created, then either finished at    *)
(* once (model not loaded) or waiting for run_in_executor, then done.      *)
(***************************************************************************)
TextsLists == UNION { [ 1..k -> 0..MaxTexts ] : k \in 1..MaxPairs }

NewTask == [ pc |-> "created", failed |-> FALSE, similarities |-> << >>,
             scores |-> << >> ]

InitBatch ==
    /\ Constructed
    /\ conn = FALSE
    /\ model \in BOOLEAN
    /\ search_logs = << >>
    /\ fn_args \in [ texts_list : TextsLists ]
    /\ fn_ret = [ done |-> FALSE, value |-> << >> ]
    /\ tasks = [ i \in 1..Len(fn_args.texts_list) |-> NewTask ]

\* rerank up to its first suspension: "if self.model is None: return
\* [1.0] * len(texts)", else the await of loop.run_in_executor
RerankStart(i) ==
    /\ tasks[i].pc = "created"
    /\ tasks' = [ tasks EXCEPT ![i] =
                    IF model
                    THEN [ @ EXCEPT !.pc = "executor" ]
                    ELSE [ @ EXCEPT !.pc = "done", !.failed = TRUE,
                                    !.scores = rerank(fn_args.texts_list[i],
                                                      model, FALSE, << >>) ] ]
    /\ UNCHANGED << service_vars, fn_args, fn_ret >>

\* compute_similarity has finished in the thread pool, with the similarities
\* or with an exception, which rerank answers with uniform scores
RerankFinish(i) ==
    /\ tasks[i].pc = "executor"
    /\ \E raised \in BOOLEAN,
          similarities \in [ 1..fn_args.texts_list[i] -> CosineValues ] :
          tasks' = [ tasks EXCEPT ![i] =
                       [ pc           |-> "done",
                         failed       |-> raised,
                         similarities |-> similarities,
                         scores       |-> rerank(fn_args.texts_list[i], model,
                                                 raised, similarities) ] ]
    /\ UNCHANGED << service_vars, fn_args, fn_ret >>

\* a failure of one coroutine answered for the whole batch:
\* [[1.0] * len(texts) for texts in texts_list]
BatchGatherAllOrNothing ==
    /\ ~fn_ret.done
    /\ \A i \in 1..Len(tasks) : tasks[i].pc = "done"
    /\ fn_ret' =
          [ done  |-> TRUE,
            value |-> IF \E i \in 1..Len(tasks) : tasks[i].failed
                      THEN [ i \in 1..Len(tasks) |->
                               UniformScores(fn_args.texts_list[i]) ]
                      ELSE [ i \in 1..Len(tasks) |-> tasks[i].scores ] ]
    /\ UNCHANGED << service_vars, fn_args, tasks >>

\* results = await asyncio.gather(*tasks); return results
BatchGather ==
    /\ ~fn_ret.done
    /\ \A i \in 1..Len(tasks) : tasks[i].pc = "done"
    /\ fn_ret' = [ done  |-> TRUE,
                   value |-> [ i \in 1..Len(tasks) |-> tasks[i].scores ] ]
    /\ UNCHANGED << service_vars, fn_args, tasks >>

NextBatch ==
    \/ \E i \in 1..Len(tasks) : RerankStart(i)
    \/ \E i \in 1..Len(tasks) : RerankFinish(i)
    \/ BatchGather

SpecBatch == InitBatch /\ [][NextBatch]_vars

(***************************************************************************)
(* Properties of batch_rerank (SpecBatch).                                 *)
(***************************************************************************)
\* C14: in whatever order the rerank coroutines of a batch run, the batch
\* call returns one list per pair, the i-th as long as the i-th text list;
\* a pair whose scoring failed gets uniform 1.0 scores and every other pair
\* gets the clamped similarities computed for it.
C14_BatchFailureIsolated ==
    /\ \A i \in 1..Len(tasks) :
          tasks[i].pc = "done" =>
             /\ Len(tasks[i].scores) = fn_args.texts_list[i]
             /\ tasks[i].failed =>
                   \A j \in 1..Len(tasks[i].scores) : tasks[i].scores[j] = 1000
    /\ fn_ret.done =>
          /\ Len(fn_ret.value) = Len(fn_args.texts_list)
          /\ \A i \in 1..Len(fn_ret.value) :
                /\ Len(fn_ret.value[i]) = fn_args.texts_list[i]
                /\ tasks[i].failed =>
                      \A j \in 1..Len(fn_ret.value[i]) : fn_ret.value[i][j] = 1000
                /\ ~tasks[i].failed =>
                      \A j \in 1..Len(fn_ret.value[i]) :
                         fn_ret.value[i][j] =
                            Max(0, Min(1000, tasks[i].similarities[j]))

C14_Witness ==
    /\ fn_ret.done
    /\ Len(fn_ret.value) = 2
    /\ tasks[1].failed
    /\ ~tasks[2].failed
    /\ fn_ret.value[1] = << 1000, 1000 >>
    /\ fn_ret.value[2] = << 800 >>

(***************************************************************************)
(* Clustering on its own: _cluster_results on any list of results, with    *)
(* any labelling DBSCAN can give and an error at any of its steps or none. *)
(***************************************************************************)
ClusterLists == SeqsUpTo(FuseHits, MaxClusterLen)

InitCluster ==
    /\ Constructed
    /\ conn = FALSE
    /\ model = TRUE
    /\ search_logs = << >>
    /\ \E hits \in ClusterLists : fn_args = [ results |-> ToResults(hits, 0) ]
    /\ fn_ret = [ done  |-> FALSE,
                  value |-> [ results |-> << >>, clusters |-> << >>,
                              encoded |-> FALSE, fault |-> "none",
                              labels |-> << >> ] ]
    /\ tasks = << >>

ClusterResults ==
    /\ ~fn_ret.done
    /\ \E fault \in ClusterFaults, labels \in Labelings(Len(fn_args.results)) :
          LET ret == _cluster_results(fn_args.results, fault, labels)
          IN  fn_ret' = [ done  |-> TRUE,
                          value |-> [ results  |-> ret.results,
                                      clusters |-> ret.clusters,
                                      encoded  |-> ret.encoded,
                                      fault    |-> fault,
                                      labels   |-> labels ] ]
    /\ UNCHANGED << service_vars, fn_args, tasks >>

NextCluster == ClusterResults

SpecCluster == InitCluster /\ [][NextCluster]_vars

(***************************************************************************)
(* Properties of clustering (SpecCluster).                                 *)
(***************************************************************************)
\* C15: given no result or one result, _cluster_results returns its input
\* as it is (same elements, same order, no cluster field set) and an empty
\* list of cluster summaries, and does not call the encoder.
C15_ClusterNoOp ==
    fn_ret.done /\ Len(fn_args.results) <= 1 =>
        /\ fn_ret.value.results = fn_args.results
        /\ \A i \in 1..Len(fn_ret.value.results) :
              fn_ret.value.results[i].cluster = ""
        /\ fn_ret.value.clusters = << >>
        /\ ~fn_ret.value.encoded

C15_Witness ==
    /\ fn_ret.done
    /\ Len(fn_args.results) = 1
    /\ fn_args.results[1].title # ""
    /\ fn_ret.value.results = fn_args.results

\* a clustering call that went through: two results or more and no error
Clustered == fn_ret.done /\ Len(fn_args.results) >= 2 /\ fn_ret.value.fault = "none"

\* the input position of the result at output position j (ids are positions)
InputIndex(j) == fn_ret.value.results[j].id

\* the cluster id DBSCAN gave the result at output position j
LabelAt(j) == fn_ret.value.labels[InputIndex(j)]

\* C16: for two results or more, the list a successful _cluster_results
\* returns is a permutation of its input (nothing dropped, nothing
\* duplicated), clusters come in ascending cluster id with the members of a
\* cluster side by side, scores do not increase inside a cluster, and the
\* cluster sizes add up to the number of results.
C16_ClusterGrouping ==
    Clustered =>
        LET in  == fn_args.results
            out == fn_ret.value.results
            n   == Len(in)
        IN  /\ Len(out) = n
            /\ \A i \in 1..n : Cardinality({ j \in 1..n : InputIndex(j) = i }) = 1
            /\ \A j \in 1..n :
                  out[j] = [ in[InputIndex(j)] EXCEPT !.cluster = out[j].cluster ]
            /\ \A j \in 1..(n - 1) :
                  /\ LabelAt(j) <= LabelAt(j + 1)
                  /\ LabelAt(j) = LabelAt(j + 1) => out[j].score >= out[j + 1].score
            /\ \A c \in Range(fn_ret.value.labels) :
                  Cardinality({ j \in 1..n :
                                  /\ LabelAt(j) = c
                                  /\ j = 1 \/ LabelAt(j - 1) # c }) = 1
            /\ \A j \in 1..n : out[j].cluster # ""

C16_Witness ==
    /\ Clustered
    /\ fn_ret.value.labels = << 0, 1, 0 >>
    /\ fn_args.results[1].score < fn_args.results[3].score
    /\ InputIndex(1) = 3
    /\ InputIndex(2) = 1
    /\ InputIndex(3) = 2

\* the position of cluster c in first-seen order, counted from 1
FirstSeenPosition(c) ==
    LET labels == fn_ret.value.labels
        first  == CHOOSE i \in 1..Len(labels) :
                     /\ labels[i] = c
                     /\ \A k \in 1..(i - 1) : labels[k] # c
    IN  Cardinality({ labels[k] : k \in 1..(first - 1) }) + 1

\* the names cluster c can take from a member of the highest score
TopNames(c) ==
    LET in      == fn_args.results
        labels  == fn_ret.value.labels
        members == { i \in 1..Len(in) : labels[i] = c }
        tops    == { i \in members : \A k \in members : in[i].score >= in[k].score }
    IN  { IF in[i].title # "" THEN in[i].title
                              ELSE ClusterLabel(FirstSeenPosition(c)) : i \in tops }

\* C17: after a successful clustering every member of a cluster carries the
\* cluster's name, which is the title of the member of the highest score
\* or, when that title is empty, the label numbered by the cluster's
\* position in first-seen order; there is one summary (name, count) per
\* cluster, in first-seen order.
C17_ClusterNames ==
    Clustered =>
        LET out      == fn_ret.value.results
            labels   == fn_ret.value.labels
            infos    == fn_ret.value.clusters
            ids      == Range(labels)
        IN  /\ \A j \in 1..Len(out) : out[j].cluster \in TopNames(LabelAt(j))
            /\ \A j, k \in 1..Len(out) :
                  LabelAt(j) = LabelAt(k) => out[j].cluster = out[k].cluster
            /\ Len(infos) = Cardinality(ids)
            /\ \A c \in ids :
                  /\ infos[FirstSeenPosition(c)].count =
                        Cardinality({ i \in 1..Len(labels) : labels[i] = c })
                  /\ \A j \in 1..Len(out) :
                        LabelAt(j) = c =>
                            infos[FirstSeenPosition(c)].name = out[j].cluster

C17_Witness ==
    /\ Clustered
    /\ fn_ret.value.labels = << 0, 1, 1 >>
    /\ fn_args.results[2].score < fn_args.results[3].score
    /\ fn_args.results[2].title # ""
    /\ fn_args.results[3].title = ""
    /\ fn_ret.value.clusters =
          << [ name |-> fn_args.results[1].title, count |-> 1 ],
             [ name |-> ClusterLabel(2), count |-> 2 ] >>
    /\ fn_ret.value.results[2].cluster = ClusterLabel(2)
    /\ fn_ret.value.results[3].cluster = ClusterLabel(2)

(***************************************************************************)
(* Properties of the stages of search (Spec).                              *)
(***************************************************************************)
FailedAt == { i \in 1..Len(trace) : trace[i].stage = "cluster_failed" }

\* C18: when a step of _cluster_results fails, nothing is raised: the list
\* clustering was given comes back in the same order with no cluster field
\* set, the cluster summaries are empty, and search goes on to truncation.
C18_ClusterFailureSwallowed ==
    \A k \in FailedAt :
        /\ k > 1
        /\ trace[k - 1].stage \in ListStages
        /\ trace[k].out = trace[k - 1].out
        /\ \A i \in 1..Len(trace[k].out) : trace[k].out[i].cluster = ""
        /\ clusters = << >>
        /\ outcome.kind # "raised"
        /\ pc \in { "truncate", "log", "done" }
        /\ pc = "truncate" => k = Len(trace) /\ results = trace[k].out
        /\ pc \in { "log", "done" } =>
              /\ Len(trace) > k
              /\ trace[k + 1] =
                    Stage("truncated",
                          SubSeq(trace[k].out, 1,
                                 Min(req.max_results, Len(trace[k].out))))

C18_Witness ==
    /\ pc = "done"
    /\ outcome.kind = "returned"
    /\ \E k \in FailedAt :
          /\ Len(trace[k].out) = 2
          /\ trace[k - 1].stage = "reranked"
          /\ trace[k].out = trace[k - 1].out
          /\ trace[k].out[1].title # ""
          /\ outcome.value = trace[k].out

ResolutionStages == { "feature_scorer", "history_scorer", "strategy_resolved" }

RetrievalStages == { "semantic_search", "fulltext_search", "native_hybrid_failed",
                     "semantic_search_raised", "fulltext_search_raised" }

RerankStages == { "reranked", "reranked_uniform" }

ClusterStages == { "clustered", "cluster_failed" }

\* the place of a stage in the order of search; the scorers belong to
\* strategy resolution, the native attempt and the retriever calls to retrieval
StageRank(name) ==
    CASE name \in ResolutionStages -> 1
      [] name \in RetrievalStages -> 2
      [] name = "fused" -> 3
      [] name \in RerankStages -> 4
      [] name \in ClusterStages -> 5
      [] name = "truncated" -> 6
      [] OTHER -> 7

HasStageOf(stages) == \E i \in 1..Len(trace) : trace[i].stage \in stages

RetrievedStages == { "semantic_search", "fulltext_search", "fused" }

\* the list retrieval (and fusion, on the hybrid path) handed on
RetrievedList ==
    LET at == { i \in 1..Len(trace) : trace[i].stage \in RetrievedStages }
    IN  trace[CHOOSE i \in at : \A k \in at : k <= i].out

\* C19: the stages of a search call run in the order strategy resolution,
\* retrieval, fusion, reranking, clustering, truncation, none of them twice
\* and none out of order; fusion runs on the hybrid path only, reranking
\* only when use_reranking is set and retrieval gave more than one result,
\* clustering only when use_clustering is set and more than one result is
\* left. The order is read at every step, the conditions off the call that
\* returned.
C19_StageOrder ==
    /\ \A i \in 1..(Len(trace) - 1) :
          LET here == StageRank(trace[i].stage)
              next == StageRank(trace[i + 1].stage)
          IN  /\ here <= next
              /\ here >= 3 => here < next
              /\ here <= 2 =>
                    \A j \in (i + 1)..Len(trace) : trace[j].stage # trace[i].stage
    /\ HasStage("fused") => strategy_used = "hybrid"
    /\ pc = "done" =>
          /\ HasStage("strategy_resolved")
          /\ HasStage("semantic_search") \/ HasStage("fulltext_search")
          /\ HasStage("fused") <=> strategy_used = "hybrid"
          /\ HasStageOf(RerankStages) <=>
                req.use_reranking /\ Len(RetrievedList) > 1
          /\ HasStageOf(ClusterStages) <=>
                req.use_clustering /\ Len(RetrievedList) > 1
          /\ HasStage("truncated")

\* all six stages in one call
C19_Witness ==
    /\ pc = "done"
    /\ req.use_reranking
    /\ req.use_clustering
    /\ strategy_used = "hybrid"
    /\ Len(RetrievedList) = 2
    /\ Len(trace) >= 6
    /\ trace[Len(trace) - 4].stage = "fused"
    /\ trace[Len(trace) - 3].stage = "reranked"
    /\ trace[Len(trace) - 2].stage = "clustered"
    /\ trace[Len(trace) - 1].stage = "truncated"

(***************************************************************************)
(* Two search requests in flight on one SearchService.  A request runs     *)
(* from one suspension point to the next in one step: the await of         *)
(* encode_text in _semantic_search, of run_in_executor in rerank, of       *)
(* encode_batch in _cluster_results.  FulltextService.search and           *)
(* log_search never suspend.  The caller is the handler of api/search.py,  *)
(* which reads strategy_used and clusters off the service when search      *)
(* returns.                                                                *)
(***************************************************************************)
SharedRequests ==
    [ strategy : { "semantic", "fulltext" }, max_results : { MaxHits },
      min_score : MinScoreArgs, use_reranking : BOOLEAN,
      use_clustering : BOOLEAN ]

NoResponse == [ results |-> << >>, strategy_used |-> "", clusters |-> << >> ]

NewRequest(r) ==
    [ pc |-> "created", req |-> r, results |-> << >>, own_clusters |-> << >>,
      response |-> NoResponse ]

InitShared ==
    /\ Constructed
    /\ conn = FALSE
    /\ model \in BOOLEAN
    /\ search_logs = << >>
    /\ fn_args = << >>
    /\ fn_ret = [ done |-> FALSE, value |-> << >> ]
    /\ tasks \in [ 1..2 -> { NewRequest(r) : r \in SharedRequests } ]

\* lines 72-89 and api/search.py 71-78: the slice, log_search, the return,
\* and the response built from the service's attributes
Respond(i, rs, own, cl) ==
    tasks' = [ tasks EXCEPT ![i] =
                 [ @ EXCEPT
                     !.pc = "responded",
                     !.results = Prefix(rs, tasks[i].req.max_results),
                     !.own_clusters = own,
                     !.response =
                        [ results       |-> Prefix(rs, tasks[i].req.max_results),
                          strategy_used |-> strategy_used',
                          clusters      |-> IF tasks[i].req.use_clustering
                                            THEN cl ELSE << >> ] ] ]

\* lines 66-69 up to the await of encode_batch, or on to the return
ContinueToCluster(i, rs) ==
    IF tasks[i].req.use_clustering /\ Len(rs) > 1
    THEN /\ tasks' = [ tasks EXCEPT ![i] =
                         [ @ EXCEPT !.pc = "encode_batch", !.results = rs ] ]
         /\ clusters' = clusters
    ELSE /\ Respond(i, rs, << >>, clusters)
         /\ clusters' = clusters

\* lines 62-64 up to the await of run_in_executor; with no model rerank
\* returns at once
ContinueToRerank(i, rs) ==
    IF tasks[i].req.use_reranking /\ Len(rs) > 1
    THEN IF model
         THEN /\ tasks' = [ tasks EXCEPT ![i] =
                              [ @ EXCEPT !.pc = "executor", !.results = rs ] ]
              /\ clusters' = clusters
         ELSE ContinueToCluster(i, _rerank_results(rs, UniformScores(Len(rs))))
    ELSE ContinueToCluster(i, rs)

\* what other requests do not touch while request i takes a step
shared_rest ==
    << pc, req, strategy, results, semantic_results, conn, search_logs,
       db_logs, model, env, trace, outcome, fn_args, fn_ret >>

\* lines 44-60: self.strategy_used = strategy, then _semantic_search up to
\* the await in encode_text, or _fulltext_search to its end
SharedBegin(i) ==
    /\ tasks[i].pc = "created"
    /\ strategy_used' = tasks[i].req.strategy
    /\ IF tasks[i].req.strategy = "semantic"
       THEN /\ tasks' = [ tasks EXCEPT ![i] = [ @ EXCEPT !.pc = "encode_text" ] ]
            /\ clusters' = clusters
       ELSE \E raw \in RawLists(tasks[i].req.max_results * 2) :
               ContinueToRerank(i, ToResults(FilterHits(raw, tasks[i].req.min_score),
                                             MaxHits))
    /\ UNCHANGED shared_rest

\* encode_text resumes: VectorService.search and the SearchResult list
SharedSemantic(i) ==
    /\ tasks[i].pc = "encode_text"
    /\ strategy_used' = strategy_used
    /\ \E raw \in RawLists(tasks[i].req.max_results * 2) :
          ContinueToRerank(i, ToResults(FilterHits(raw, tasks[i].req.min_score), 0))
    /\ UNCHANGED shared_rest

\* run_in_executor resumes with the scores, or with an error answered by
\* uniform scores
SharedReranked(i) ==
    /\ tasks[i].pc = "executor"
    /\ strategy_used' = strategy_used
    /\ \E reranked_scores \in ModelScoreLists(Len(tasks[i].results))
                              \cup { UniformScores(Len(tasks[i].results)) } :
          ContinueToCluster(i, _rerank_results(tasks[i].results, reranked_scores))
    /\ UNCHANGED shared_rest

\* encode_batch resumes: the rest of _cluster_results, self.clusters =
\* clusters, and the return
SharedClustered(i) ==
    /\ tasks[i].pc = "encode_batch"
    /\ strategy_used' = strategy_used
    /\ \E fault \in ClusterFaults, labels \in Labelings(Len(tasks[i].results)) :
          LET ret == _cluster_results(tasks[i].results, fault, labels)
          IN  /\ clusters' = ret.clusters
              /\ Respond(i, ret.results, ret.clusters, ret.clusters)
    /\ UNCHANGED shared_rest

NextShared ==
    \/ \E i \in 1..2 : SharedBegin(i)
    \/ \E i \in 1..2 : SharedSemantic(i)
    \/ \E i \in 1..2 : SharedReranked(i)
    \/ \E i \in 1..2 : SharedClustered(i)

SpecShared == InitShared /\ [][NextShared]_vars

(***************************************************************************)
(* Properties of concurrent requests (SpecShared).                         *)
(***************************************************************************)
\* C20 as stated: with two requests in flight on one SearchService, the
\* strategy-used label and the cluster summaries reported for a request are
\* the ones that request computed, under every interleaving.
C20_RequestsIsolated ==
    \A i \in 1..2 :
        tasks[i].pc = "responded" =>
            /\ tasks[i].response.strategy_used = tasks[i].req.strategy
            /\ tasks[i].response.clusters = tasks[i].own_clusters

(***************************************************************************)
(* Properties of the search log (Spec).                                    *)
(***************************************************************************)
LogStages == { "logged", "log_failed" }

\* the record the call wrote, if it wrote one
WrittenRecord ==
    IF conn THEN db_logs[Len(db_logs)] ELSE search_logs[Len(search_logs)]

\* C21: a search call that completes hands one record to log_search, after
\* truncation, with the strategy that was resolved (never "auto") and the
\* length of the returned list; a call aborted by a retrieval failure writes
\* none, and a failing write does not fail the call.
C21_OneLogRecord ==
    /\ pc # "done" =>
          /\ ~HasStageOf(LogStages)
          /\ db_logs = << >>
          /\ OnlyEarlierEntries
    /\ pc = "done" =>
          /\ Len(trace) >= 2
          /\ trace[Len(trace)].stage \in LogStages
          /\ trace[Len(trace) - 1].stage = "truncated"
          /\ \A i \in 1..(Len(trace) - 1) : trace[i].stage \notin LogStages
          /\ outcome = Returned(trace[Len(trace) - 1].out)
          /\ LastStage = "log_failed" => db_logs = << >> /\ OnlyEarlierEntries
          /\ LastStage = "logged" =>
                /\ Len(db_logs) + Len(search_logs) >= 1
                /\ conn => Len(db_logs) = 1 /\ search_logs = << >>
                /\ ~conn =>
                      /\ db_logs = << >>
                      /\ \E l \in EarlierLogs :
                            /\ Len(search_logs) = Len(l) + 1
                            /\ \A i \in 1..Len(l) :
                                  [ search_logs[i] EXCEPT !.similarity = << >> ] = l[i]
                /\ WrittenRecord.query = req.query
                /\ WrittenRecord.strategy = strategy_used
                /\ WrittenRecord.strategy \in Range(Strategies)
                /\ WrittenRecord.result_count = Len(outcome.value)

C21_Witness ==
    /\ pc = "done"
    /\ req.strategy = "auto"
    /\ LastStage = "logged"
    /\ ~conn
    /\ Len(search_logs) = 2
    /\ search_logs[2].strategy = "hybrid"
    /\ search_logs[2].result_count = 1
    /\ Len(outcome.value) = 1
    /\ HasStage("clustered")

(***************************************************************************)
(* The fusion of _legacy_hybrid_search run again on the lists it was given.*)
(* The loop at lines 476-487 assigns result.score = combined_score on the  *)
(* SearchResult objects of the two input lists, so the lists are part of   *)
(* the state.  A result object is identified by its id.                    *)
(***************************************************************************)
\* result_map as the two loops at lines 452-473 leave it
ResultMap(semantic, fulltext) == AddFulltext(AddSemantic(<< >>, semantic), fulltext)

\* the combined score computed for every candidate key, in result_map order
CombinedScores(semantic, fulltext, semantic_weight, fulltext_weight) ==
    LET result_map == ResultMap(semantic, fulltext)
    IN  [ i \in 1..Len(result_map) |->
            [ key   |-> result_map[i].key,
              score |-> CombinedScore(result_map[i], semantic_weight,
                                      fulltext_weight) ] ]

\* a list of results after "result.score = combined_score" has run over
\* result_map: the objects held in result_map carry the combined score
AfterFuse(list, semantic, fulltext, semantic_weight, fulltext_weight) ==
    LET result_map == ResultMap(semantic, fulltext)
    IN  [ n \in 1..Len(list) |->
            IF \E i \in 1..Len(result_map) : result_map[i].result.id = list[n].id
            THEN LET i == CHOOSE i \in 1..Len(result_map) :
                             result_map[i].result.id = list[n].id
                 IN  [ list[n] EXCEPT !.score =
                         CombinedScore(result_map[i], semantic_weight,
                                       fulltext_weight) ]
            ELSE list[n] ]

InitRefuse ==
    /\ Constructed
    /\ conn = FALSE
    /\ model = TRUE
    /\ search_logs = << >>
    /\ \E sem \in FuseLists, ft \in FuseLists, w \in WeightArgs,
          m \in FuseMinScores :
          fn_args = [ semantic        |-> ToResults(sem, 0),
                      fulltext        |-> ToResults(ft, MaxFuseLen),
                      semantic_weight |-> w[1],
                      fulltext_weight |-> w[2],
                      min_score       |-> m ]
    /\ fn_ret = [ done |-> FALSE, value |-> << >> ]
    /\ tasks = << >>

\* lines 449-493 on the two lists as they are now
FuseAgain ==
    /\ Len(fn_ret.value) < 2
    /\ fn_ret' =
          [ done  |-> Len(fn_ret.value) = 1,
            value |-> Append(fn_ret.value,
                        [ scores |-> CombinedScores(fn_args.semantic,
                                        fn_args.fulltext,
                                        fn_args.semantic_weight,
                                        fn_args.fulltext_weight),
                          fused  |-> Fuse(fn_args.semantic, fn_args.fulltext,
                                          fn_args.semantic_weight,
                                          fn_args.fulltext_weight,
                                          fn_args.min_score) ]) ]
    /\ fn_args' =
          [ fn_args EXCEPT
              !.semantic = AfterFuse(fn_args.semantic, fn_args.semantic,
                                     fn_args.fulltext, fn_args.semantic_weight,
                                     fn_args.fulltext_weight),
              !.fulltext = AfterFuse(fn_args.fulltext, fn_args.semantic,
                                     fn_args.fulltext, fn_args.semantic_weight,
                                     fn_args.fulltext_weight) ]
    /\ UNCHANGED << service_vars, tasks >>

NextRefuse == FuseAgain

SpecRefuse == InitRefuse /\ [][NextRefuse]_vars

WindowQuery == << "a", " ", "b" >>

WindowLoggedQueries ==
    { << "a", " ", "b" >>, << "a" >>, << "a", " ", "b", " ", "c" >>, << "c" >> }

WindowEntries ==
    [ query : WindowLoggedQueries, strategy : { "semantic", "fulltext" },
      response_time : { 1 }, result_count : { 1 }, similarity : { << >> } ]

\* the entries a run is made of: one similar to the query, one not
RunEntries ==
    { [ query |-> << "a" >>, strategy |-> "hybrid", response_time |-> 0,
        result_count |-> 1, similarity |-> << >> ],
      [ query |-> << "c" >>, strategy |-> "hybrid", response_time |-> 0,
        result_count |-> 1, similarity |-> << >> ] }

\* run lengths around the limit of 5 and around the window of 100
RunLengths(entry) ==
    IF entry.query = << "a" >> THEN { 0, 4, 5, 6 }
                               ELSE { 0, RecentLogWindow - 1, RecentLogWindow }

InitWindow ==
    /\ Constructed
    /\ conn = FALSE
    /\ model = TRUE
    /\ \E older \in SeqsUpTo(WindowEntries, 1),
          newest \in SeqsUpTo(WindowEntries, 1),
          entry \in RunEntries :
          \E k \in RunLengths(entry) :
             search_logs = older \o [ i \in 1..k |-> entry ] \o newest
    /\ fn_args = [ query |-> WindowQuery, logs |-> search_logs ]
    /\ fn_ret = [ done |-> FALSE,
                  value |-> [ similar |-> << >>, scores |-> ZeroScores ] ]
    /\ tasks = << >>

\* _analyze_historical_performance(query) with its call of
\* _find_similar_queries(query)
FindSimilar ==
    /\ ~fn_ret.done
    /\ fn_ret' =
          [ done  |-> TRUE,
            value |->
               [ similar |-> _find_similar_queries(fn_args.query, ~conn,
                                                   search_logs, NoFault),
                 scores  |-> _analyze_historical_performance(
                                 fn_args.query, ~conn, search_logs, NoFault) ] ]
    /\ search_logs' = LogsAfterLookup(fn_args.query, search_logs, NoFault)
    /\ UNCHANGED << pc, req, strategy, results, semantic_results,
                    strategy_used, clusters, conn, db_logs, model, env,
                    trace, outcome, fn_args, tasks >>

NextWindow == FindSimilar

SpecWindow == InitWindow /\ [][NextWindow]_vars

(***************************************************************************)
(* Properties of the lookup of similar queries (SpecWindow).               *)
(***************************************************************************)
Tokens(query) == Range(Split(query))

\* the whitespace-token Jaccard overlap of the query and an entry, as a
\* pair numerator, denominator; 0 for an entry without tokens
Jaccard(entry) ==
    << Cardinality(Tokens(fn_args.query) \cap Tokens(entry.query)),
       Max(1, Cardinality(Tokens(fn_args.query) \cup Tokens(entry.query))) >>

Qualifies(entry) == 10 * Jaccard(entry)[1] > 3 * Jaccard(entry)[2]

HigherOverlap(a, b) == Jaccard(a)[1] * Jaccard(b)[2] > Jaccard(b)[1] * Jaccard(a)[2]

\* the entry without the similarity the lookup wrote into it
Bare(entry) == [ entry EXCEPT !.similarity = << >> ]

\* the entries used are at most 5, each qualifies, and they are the
\* highest-overlap qualifying entries among the log positions of I; the
\* scores are 0 when no entry of I qualifies and for a strategy without an
\* entry among those used
UsesBest(I) ==
    LET logs    == fn_args.logs
        similar == fn_ret.value.similar
        Q       == { i \in I : Qualifies(logs[i]) }
    IN  /\ Len(similar) <= 5
        /\ Len(similar) = Min(5, Cardinality(Q))
        /\ \A k \in 1..Len(similar) :
              /\ Qualifies(similar[k])
              /\ \E i \in Q : logs[i] = Bare(similar[k])
        /\ \A i \in Q :
              ( \E k \in 1..Len(similar) : HigherOverlap(logs[i], similar[k]) )
                 => \E k \in 1..Len(similar) : logs[i] = Bare(similar[k])
        /\ Q = { } => fn_ret.value.scores = ZeroScores
        /\ \A st \in Range(Strategies) :
              ( \A k \in 1..Len(similar) : similar[k].strategy # st )
                 => fn_ret.value.scores[st] = 0

\* C23 as stated: the entries used are the at most 5 highest-overlap
\* entries among all prior log entries with overlap above 0.3.
C23_BestOfAllEntries ==
    fn_ret.done => UsesBest(1..Len(fn_args.logs))

\* the positions of the last 100 entries of the log
WindowPositions ==
    { i \in 1..Len(fn_args.logs) : i > Len(fn_args.logs) - 100 }

\* C23: the historical scorer uses at most 5 log entries, each with a
\* whitespace-token Jaccard overlap with the query above 0.3, and these are
\* the highest-overlap qualifying entries among the 100 most recent entries
\* of the in-memory log; if none of those qualifies every history score is
\* 0, and a strategy without an entry among the used ones keeps score 0.
C23_BestOfRecentEntries ==
    fn_ret.done => UsesBest(WindowPositions)

\* six similar entries, the best of them the newest, which displaces one
C23_Witness ==
    /\ fn_ret.done
    /\ Len(fn_args.logs) = 7
    /\ Cardinality({ i \in 1..7 : Qualifies(fn_args.logs[i]) }) = 7
    /\ Len(fn_ret.value.similar) = 5
    /\ Bare(fn_ret.value.similar[1]) = fn_args.logs[7]
    /\ fn_ret.value.similar[1].similarity = << 2, 2 >>
    /\ fn_ret.value.scores.hybrid > 0
    /\ fn_ret.value.scores.semantic = 0

(***************************************************************************)
(* Properties of the retriever calls (Spec).                               *)
(***************************************************************************)
\* the stages that stand for one call of VectorService.search, and for one
\* call of FulltextService.search
SemanticCallStages == { "semantic_search", "semantic_search_raised" }

FulltextCallStages == { "fulltext_search", "fulltext_search_raised" }

\* C24: within one search call nothing that failed is tried again: the
\* semantic retriever and the fulltext retriever are each called at most
\* once, also on the hybrid path after the native attempt has failed and
\* the legacy fallback runs; the native attempt is made at most once, and
\* a retriever error ends the call.
C24_NoRetry ==
    \A i \in 1..Len(trace) :
        LET name == trace[i].stage
        IN  /\ name \in SemanticCallStages =>
                  \A j \in (i + 1)..Len(trace) :
                      trace[j].stage \notin SemanticCallStages
            /\ name \in FulltextCallStages =>
                  \A j \in (i + 1)..Len(trace) :
                      trace[j].stage \notin FulltextCallStages
            /\ name = "native_hybrid_failed" =>
                  /\ strategy_used = "hybrid"
                  /\ \A j \in 1..Len(trace) :
                        j # i => trace[j].stage # "native_hybrid_failed"
            /\ name \in RaisedStages => i = Len(trace) /\ pc = "raised"

\* the fallback ran both retrievers once after the native attempt failed,
\* and the second of them raised
C24_Witness ==
    /\ pc = "raised"
    /\ Len(trace) >= 3
    /\ trace[Len(trace) - 2].stage = "native_hybrid_failed"
    /\ trace[Len(trace) - 1].stage = "semantic_search"
    /\ Len(trace[Len(trace) - 1].out) > 0
    /\ trace[Len(trace)].stage = "fulltext_search_raised"

(***************************************************************************)
(* Frame of the history lookup (SpecHistory).                              *)
(***************************************************************************)
\* C25 as stated: the history lookup only reads the query log: when
\* _find_similar_queries and _analyze_historical_performance have run, the
\* log holds the same entries with the same field values as before.
C25_LookupReadOnly ==
    fn_ret.done => search_logs = fn_args.logs

(***************************************************************************)
(* Best-first order after clustering (SpecCluster).                        *)
(***************************************************************************)
\* the list given to clustering is in non-increasing order of score
InputSorted ==
    \A i \in 1..(Len(fn_args.results) - 1) :
        fn_args.results[i].score >= fn_args.results[i + 1].score

\* the output positions at which a cluster begins
ClusterStarts ==
    { j \in 1..Len(fn_ret.value.results) : j = 1 \/ LabelAt(j - 1) # LabelAt(j) }

\* C26: when the list entering clustering is sorted by non-increasing
\* score, the first element of the clustered output has the maximum score
\* of all results, and the best members of successive clusters have
\* non-increasing scores.
C26_BestFirstKept ==
    Clustered /\ InputSorted =>
        LET out == fn_ret.value.results
        IN  /\ \A i \in 1..Len(fn_args.results) :
                  out[1].score >= fn_args.results[i].score
            /\ \A j \in ClusterStarts :
                  \A i \in 1..Len(out) : LabelAt(i) = LabelAt(j) =>
                      out[j].score >= out[i].score
            /\ \A j, k \in ClusterStarts : j < k => out[j].score >= out[k].score

C26_Witness ==
    /\ Clustered
    /\ InputSorted
    /\ fn_ret.value.labels = << 0, 1, 0 >>
    /\ fn_args.results[1].score > fn_args.results[3].score
    /\ fn_args.results[2].score > fn_args.results[3].score
    /\ ClusterStarts = { 1, 3 }
    /\ fn_ret.value.results[2].score < fn_ret.value.results[3].score

(***************************************************************************)
(* Cluster summaries and the returned list (Spec).                         *)
(***************************************************************************)
\* C27 as stated: after a search call in which clustering ran, every
\* summary's count is the number of returned results whose cluster field
\* carries the summary's name, and the counts add up to the length of the
\* returned list.
C27_SummariesMatchReturned ==
    pc = "done" /\ HasStage("clustered") =>
        /\ \A k \in 1..Len(clusters) :
              clusters[k].count =
                 Cardinality({ i \in 1..Len(outcome.value) :
                                 outcome.value[i].cluster = clusters[k].name })
        /\ SeqSum([ k \in 1..Len(clusters) |-> clusters[k].count ])
              = Len(outcome.value)

(***************************************************************************)
(* One SearchService called twice in a row: tasks[1] is the first call,    *)
(* tasks[2] the second, which starts after the first has returned.  The    *)
(* attributes strategy_used and clusters are the service's and live on     *)
(* from one call to the next.                                              *)
(***************************************************************************)
\* search() entered: lines 44-60, by the next caller of the same instance
SequentialBegin(i) ==
    /\ \A j \in 1..(i - 1) : tasks[j].pc = "responded"
    /\ SharedBegin(i)

NextSequential ==
    \/ \E i \in 1..2 : SequentialBegin(i)
    \/ \E i \in 1..2 : SharedSemantic(i)
    \/ \E i \in 1..2 : SharedReranked(i)
    \/ \E i \in 1..2 : SharedClustered(i)

SpecSequential == InitShared /\ [][NextSequential]_vars

\* the call that returned last
MostRecent(i) ==
    /\ tasks[i].pc = "responded"
    /\ \A j \in (i + 1)..2 : tasks[j].pc = "created"

\* C28 as stated: after any sequence of search calls on one SearchService
\* the clusters attribute describes the most recent call only: it holds
\* that call's summaries, and is empty when that call ran no clustering or
\* its clustering failed.
C28_ClustersOfLastCall ==
    \A i \in 1..2 : MostRecent(i) => clusters = tasks[i].own_clusters

(***************************************************************************)
(* POST /search with the Redis response cache (api/search.py,              *)
(* cache_service.py).  tasks.posts are the requests being handled, each by *)
(* a SearchService of its own; tasks.redis is the Redis store, a function  *)
(* from the keys present to the pickled responses.  A request body's query *)
(* is a sequence of characters.  The field params of a response is not a   *)
(* field of SearchResponse: it records the arguments of the search call    *)
(* that computed the response.                                             *)
(***************************************************************************)
\* str.strip() on a sequence of characters
RECURSIVE lstrip(_)
lstrip(s) ==
    IF s # << >> /\ Head(s) = " " THEN lstrip(Tail(s)) ELSE s

RECURSIVE rstrip(_)
rstrip(s) ==
    IF s # << >> /\ s[Len(s)] = " " THEN rstrip(SubSeq(s, 1, Len(s) - 1)) ELSE s

strip(s) == rstrip(lstrip(s))

\* sep.join(parts), as a string
RECURSIVE Join(_, _)
Join(sep, parts) ==
    IF parts = << >> THEN ""
    ELSE IF Len(parts) = 1 THEN parts[1]
    ELSE parts[1] \o sep \o Join(sep, Tail(parts))

\* f"search:{query}:{request.strategy}:{','.join(request.knowledge_base_ids)}"
cache_key(query, request) ==
    "search:" \o Join("", query) \o ":" \o request.strategy \o ":"
        \o Join(",", request.knowledge_base_ids)

PostQueries == { << "a" >>, << "a", " " >>, << " " >> }

SearchRequests ==
    [ query : PostQueries, knowledge_base_ids : { << "k1" >> },
      strategy : { "semantic", "fulltext" }, max_results : 1..MaxHits,
      min_score : MinScoreArgs, use_reranking : { FALSE },
      use_clustering : BOOLEAN ]

NewPost(r) == [ pc |-> "received", request |-> r, cache_hit |-> FALSE,
                response |-> << >> ]

\* the arguments handed to search_service.search, lines 58-68
SearchArgs(request) == [ request EXCEPT !.query = strip(request.query) ]

\* the rest of search() of a new SearchService once retrieval has given
\* rs, with the attributes the handler then reads: clustering, the slice
ResponsesOf(request, rs) ==
    { LET ran == request.use_clustering /\ Len(rs) > 1
          ret == _cluster_results(rs, fault, labels)
          out == Prefix(IF ran THEN ret.results ELSE rs, request.max_results)
      IN  [ query         |-> strip(request.query),
            results       |-> out,
            strategy_used |-> request.strategy,
            total_found   |-> Len(out),
            clusters      |-> IF ran THEN ret.clusters ELSE << >>,
            params        |-> SearchArgs(request) ] :
        fault \in ClusterFaults, labels \in Labelings(Len(rs)) }

\* the responses lines 58-78 can build for the request: retrieval of
\* max_results*2 hits with the min_score filter, then the rest
SearchResponses(request) ==
    UNION { ResponsesOf(request,
                        ToResults(FilterHits(raw, request.min_score),
                                  IF request.strategy = "semantic"
                                  THEN 0 ELSE MaxHits)) :
            raw \in RawLists(request.max_results * 2) }

InitCache ==
    /\ Constructed
    /\ conn = FALSE
    /\ model = FALSE
    /\ search_logs = << >>
    /\ fn_args = << >>
    /\ fn_ret = [ done |-> FALSE, value |-> << >> ]
    /\ tasks \in [ redis : { << >> },
                   posts : [ 1..2 -> { NewPost(r) : r \in SearchRequests } ] ]

cache_rest ==
    << pc, req, strategy, results, semantic_results, strategy_used, clusters,
       conn, search_logs, db_logs, model, env, trace, outcome, fn_args,
       fn_ret >>

Handled(i, to, hit, response) ==
    [ tasks.posts EXCEPT ![i] =
        [ @ EXCEPT !.pc = to, !.cache_hit = hit, !.response = response ] ]

\* lines 34-37: HTTPException 400 for a blank query
PostRejected(i) ==
    /\ tasks.posts[i].pc = "received"
    /\ strip(tasks.posts[i].request.query) = << >>
    /\ tasks' = [ tasks EXCEPT !.posts = Handled(i, "rejected", FALSE, << >>) ]
    /\ UNCHANGED cache_rest

\* lines 40-54 and CacheService.get: the key is present, the cached
\* response is returned as it is
PostCacheHit(i) ==
    LET request == tasks.posts[i].request
        key     == cache_key(strip(request.query), request)
    IN  /\ tasks.posts[i].pc = "received"
        /\ strip(request.query) # << >>
        /\ key \in DOMAIN tasks.redis
        /\ tasks' = [ tasks EXCEPT
                        !.posts = Handled(i, "responded", TRUE, tasks.redis[key]) ]
        /\ UNCHANGED cache_rest

\* CacheService.get returns None: the key is absent, or Redis raised
\* (lines 39-40, 49-51)
PostCacheMiss(i) ==
    LET request == tasks.posts[i].request
        key     == cache_key(strip(request.query), request)
    IN  /\ tasks.posts[i].pc = "received"
        /\ strip(request.query) # << >>
        /\ \E redis_up \in BOOLEAN : ~redis_up \/ key \notin DOMAIN tasks.redis
        /\ tasks' = [ tasks EXCEPT !.posts = Handled(i, "searching", FALSE, << >>) ]
        /\ UNCHANGED cache_rest

\* lines 57-94: search, the response, CacheService.set (which may fail and
\* returns False then), the return
PostSearched(i) ==
    LET request == tasks.posts[i].request
        key     == cache_key(strip(request.query), request)
    IN  /\ tasks.posts[i].pc = "searching"
        /\ \E response \in SearchResponses(request), redis_up \in BOOLEAN :
              tasks' = [ redis |-> IF redis_up
                                   THEN [ k \in DOMAIN tasks.redis \cup { key } |->
                                            IF k = key THEN response
                                            ELSE tasks.redis[k] ]
                                   ELSE tasks.redis,
                         posts |-> Handled(i, "responded", FALSE, response) ]
        /\ UNCHANGED cache_rest

\* lines 96-98: search raised, HTTPException 500, nothing is cached
PostSearchFailed(i) ==
    /\ tasks.posts[i].pc = "searching"
    /\ tasks' = [ tasks EXCEPT !.posts = Handled(i, "failed", FALSE, << >>) ]
    /\ UNCHANGED cache_rest

\* redis.set(key, data, ex=expire): the key disappears when it expires
CacheExpired(key) ==
    /\ key \in DOMAIN tasks.redis
    /\ tasks' = [ tasks EXCEPT
                    !.redis = [ k \in DOMAIN tasks.redis \ { key } |-> tasks.redis[k] ] ]
    /\ UNCHANGED cache_rest

NextCache ==
    \/ \E i \in 1..2 : PostRejected(i)
    \/ \E i \in 1..2 : PostCacheHit(i)
    \/ \E i \in 1..2 : PostCacheMiss(i)
    \/ \E i \in 1..2 : PostSearched(i)
    \/ \E i \in 1..2 : PostSearchFailed(i)
    \/ \E key \in DOMAIN tasks.redis : CacheExpired(key)

SpecCache == InitCache /\ [][NextCache]_vars

\* C29 as stated: with caching enabled, the response a request receives was
\* computed for that request's own parameters, and it holds at most
\* request.max_results results, also when it is served from a cache entry
\* written for an earlier request with the same query, strategy and
\* knowledge base ids.
C29_ResponseForOwnParameters ==
    \A i \in 1..2 :
        tasks.posts[i].pc = "responded" =>
            /\ tasks.posts[i].response.params = SearchArgs(tasks.posts[i].request)
            /\ Len(tasks.posts[i].response.results)
                  <= tasks.posts[i].request.max_results

(***************************************************************************)
(* Termination of a search call.  The event loop resumes a coroutine whose *)
(* awaited call has returned or raised, and every other step of search is  *)
(* straight-line code: a step that can be taken is eventually taken.       *)
(***************************************************************************)
\* the calls followed to their end: each strategy, reranking and clustering
\* asked or not, one query, two hits wanted from each retriever
LiveRequests == { r \in Requests : r.query = QueryShort /\ r.max_results = 1 }

InitLive ==
    /\ Constructed
    /\ conn = FALSE
    /\ model \in BOOLEAN
    /\ search_logs = << >>
    /\ fn_args = << >>
    /\ fn_ret = [ done |-> FALSE, value |-> "" ]
    /\ tasks = << >>

\* search() entered, lines 28-43
SearchLive ==
    /\ req' \in LiveRequests
    /\ Search

NextLive ==
    \/ SearchLive
    \/ ResolveStrategy
    \/ SemanticSearch
    \/ FulltextSearch
    \/ NativeHybridSearch
    \/ LegacySemanticSearch
    \/ LegacyFulltextSearch
    \/ Rerank
    \/ Cluster
    \/ Truncate
    \/ LogSearch

SpecLive == InitLive /\ [][NextLive]_vars /\ WF_vars(NextLive)

Intermediate == pc \notin { "idle", "done", "raised" }

\* C30: a search request that has been started eventually terminates, by
\* returning after truncation or by raising; it never stays in an
\* intermediate stage for ever.
C30_Terminates == Intermediate ~> pc \in { "done", "raised" }

\* a request that went through the failed native hybrid search, both
\* legacy retrievers, fusion and the log write, and returned
C30_Witness ==
    /\ pc = "done"
    /\ outcome.kind = "returned"
    /\ HasStage("native_hybrid_failed")
    /\ HasStage("fused")
    /\ HasStageOf(LogStages)

====
